---- MODULE Spec2Model ----
(***************************************************************************)
(* A model of the sreq HTTP client vendored by mxget: the send pipeline    *)
(* (Client.Do: before-request hooks, the retry loop, after-response        *)
(* hooks), request bodies and their rewinding, and the response decoder    *)
(* with the package-level buffer pool.                                     *)
(*                                                                         *)
(* client.go holds two revisions of the client.  rev = "B" is the one at   *)
(* lines 454-1046 (Retry.Merge, allowRetry, one Trigger), rev = "A" the    *)
(* one at lines 1-453 (noRetry, drainBody, a list of Triggers).            *)
(***************************************************************************)
EXTENDS Integers, Sequences, FiniteSets, TLC

\* ---------------------------------------------------------------- bounds
\* Longest body (request or response), in bytes.
MaxBody == 2
\* Largest MaxAttempts a retry policy is given.
MaxTries == 3
\* Number of registered before-request hooks, and of after-response hooks.
NHooks == 2
\* Number of bytes.Buffer objects the buffer pool can hold or create.
NBuf == 2
\* Number of decode calls made on one Response.
MaxCalls == 3
\* Number of cookie names a response may carry or a caller may ask for.
NNames == 2

\* ------------------------------------------------------------- memory
VARIABLES
    heap,       \* heap[b]: the backing array of pooled buffer b
    alloc,      \* the buffers whose backing array has been allocated
    pool        \* the buffers currently held by bufPool

memVars == <<heap, alloc, pool>>

Buffers == 1..NBuf

\* A []byte value: nil, a private array, or the first n bytes of the
\* backing array of pooled buffer b.
NilSlice == [k |-> "nil", d |-> <<>>, b |-> 0, n |-> 0]
Own(d) == [k |-> "own", d |-> d, b |-> 0, n |-> 0]
Alias(b, n) == [k |-> "buf", d |-> <<>>, b |-> b, n |-> n]

\* The bytes a slice holds in memory h.
ValIn(h, s) ==
    CASE s.k = "nil" -> <<>>
      [] s.k = "own" -> s.d
      [] s.k = "buf" -> SubSeq(h[s.b], 1, s.n)

Val(s) == ValIn(heap, s)

\* The bytes 1..n: the content the program under study produces.
Data(n) == [j \in 1..n |-> j]
\* The bytes another operation writes: n zero bytes.
Other(n) == [j \in 1..n |-> 0]

\* acquireBuffer: bufPool.Get() hands out any pooled buffer, or a new one
\* (new buffers are alike: the one of least index stands for them).
NewBuffers == Buffers \ (alloc \cup pool)
acquireBuffer ==
    pool \cup {b \in NewBuffers : \A c \in NewBuffers : b <= c}

\* Writing w into a reset (or new) buffer whose array is old: the array is
\* reused, bytes past Len(w) keep their old value.  Buffers grow in steps of
\* at least 64 bytes, so a write of at most MaxBody bytes never reallocates.
WriteArr(old, w) == w \o SubSeq(old, Len(w) + 1, Len(old))

\* buf.Bytes() of buffer b holding n bytes: nil when nothing was ever
\* written (a nil array), else a slice of the array.
BytesOf(al, b, n) == IF b \in al THEN Alias(b, n) ELSE NilSlice

\* The heap after data w went through buffer b.
HeapAfter(b, w) == IF w = <<>> THEN heap ELSE [heap EXCEPT ![b] = WriteArr(heap[b], w)]
AllocAfter(b, w) == IF w = <<>> THEN alloc ELSE alloc \cup {b}

\* releaseBuffer: Reset keeps the array, Put returns the buffer to the pool.
releaseBuffer(b) == pool \cup {b}

\* ------------------------------------------------------------ request
VARIABLES
    pc,         \* where the caller of Client.Send/Do stands
    rev,        \* the client revision the request is sent through
    req,        \* the Request: body, GetBody, retry policy, context
    ctx,        \* the request context: "live", "canceled" or "deadline"
    cancelAt,   \* history: the pc at which the context was cancelled
    i,          \* the retry loop's attempt index
    retry,      \* the effective retry policy of this send
    allowRetry, \* revision B: the body is nil or replayable
    resp,       \* the Response being filled: raw response and error
    events,     \* history: hooks, attempts, trigger and backoff calls
    sent,       \* history: the body bytes each attempt carried
    timerFired, \* the backoff timer's channel holds a value
    hookIdx     \* index of the next hook to run

doVars == <<pc, rev, req, ctx, cancelAt, i, retry, allowRetry, resp, events,
            sent, timerFired, hookIdx>>

\* ----------------------------------------------------------- response
VARIABLES
    stream,     \* the bytes the response body stream delivers
    hdr,        \* the response's Content-Encoding header
    clen,       \* the response's ContentLength (-1: unknown)
    zr,         \* the gzip.Reader Client.do put in place of the body
    sfail,      \* the stream ends in a read error instead of EOF
    shape,      \* what the whole body is a well-formed document of
    spos,       \* how many bytes have been read from the stream
    closed,     \* RawResponse.Body has been closed
    body,       \* Response.body, the cache: a []byte
    ncalls,     \* history: the number of decode calls made
    nreads,     \* history: the number of them that read the stream
    first,      \* history: the first decode call and what it returned
    out,        \* history: the latest decode call and what it returned
    cached0     \* history: the bytes of the cache when it was first set

decVars == <<stream, hdr, clen, zr, sfail, shape, spos, closed, body, ncalls, nreads, first, out, cached0>>

VARIABLES
    jar,        \* the names of the cookies the raw response carries
    chk,        \* history: the latest status check, and the error before it
    got         \* history: the latest cookie lookup and what it returned

insVars == <<jar, chk, got>>

\* What a send leaves alone: the decoding and inspection of a Response.
respVars == <<decVars, insVars>>

\* The making of a request from its options.
VARIABLES
    hd,         \* the Content-Type in req.Headers ("": none)
    wire,       \* the Content-Type of the raw request once materialized
    caller,     \* history: the Content-Type the caller set itself ("": none)
    bodyCT,     \* history: the Content-Type of the body option applied last
    nopts,      \* the number of options applied
    mp,         \* the multipart producer goroutine, its pipe and channel
    tr          \* RawClient.Do sending the request: its position
\* The client.
VARIABLES
    cl,         \* the Client: the fields of its RawClient, its hooks
    tp,         \* the transport cl.RawClient.Transport refers to
    cfg         \* the call configuring the client, and what it returned
cliVars == <<cl, tp, cfg>>

\* Do calls running concurrently on one Client.
VARIABLES
    calls,          \* each call: its request's policy, its position, its attempts
    defaultRetry,   \* the package's default retry policy
    tokens          \* the Client's rate limiter (revision A)
conVars == <<calls, defaultRetry, tokens>>

\* What a send leaves behind.
VARIABLES
    opened          \* history: which response bodies are open, that of the
                    \* latest attempt ("current"), one of an earlier attempt
                    \* ("superseded")

\* The materializing of a request and what its attempts put on the wire.
VARIABLES
    bq,             \* the Request's own fields: headers, query, form, cookies
    rw,             \* the raw http.Request: query, headers, cookies, body
    ndecode,        \* history: the number of materializations
    once,           \* history: the raw request after the first of them
    hooked,         \* history: the headers as the before-request hooks left
                    \* them, and which of them a hook set
    onwire          \* history: the headers each attempt sent
matVars == <<bq, rw, ndecode, once, hooked, onwire>>

\* Calls of the library's functions on their own.
VARIABLES
    bo,             \* a call of DefaultBackoff: its arguments, its result
    vb,             \* the calls of the verb helpers: the Client each was
                    \* called on, the Client that sent its request
    ue             \* a call of Values.URLEncode: its receiver, its result
fnVars == <<bo, vb, ue>>
moreVars == <<opened, matVars, fnVars>>
bldOwn == <<hd, wire, caller, bodyCT, nopts, mp, tr, cliVars, conVars>>
bldVars == <<bldOwn, moreVars>>

Revs == {"A", "B"}

\* retry.go:100 (revision B): the default policy makes one attempt.
defaultMaxAttempts == 1
\* client.go:339 (revision A) replaces a missing or non-positive policy by
\* noRetry, a policy of one attempt.
noRetryMaxAttempts == 1

NoErr == [kind |-> "nil", k |-> 0]
Err(kind, k) == [kind |-> kind, k |-> k]
NilRaw == [status |-> 0, att |-> -1]
Raw(status, att) == [status |-> status, att |-> att]

\* A request body reader: its type, the bytes it reads and its position.
NilReader == [typ |-> "nil", src |-> NilSlice, pos |-> 0]
NoBody == [typ |-> "NoBody", src |-> NilSlice, pos |-> 0]
Reader(typ, src) == [typ |-> typ, src |-> src, pos |-> 0]
InMemoryTypes == {"Buffer", "bytes.Reader", "strings.Reader"}

\* The bytes a reader still delivers, read from memory h.
RemainingIn(h, r) == SubSeq(ValIn(h, r.src), r.pos + 1, Len(ValIn(h, r.src)))

\* GetBody: nil, or a function returning a new reader over a snapshot.
NilGetBody == [set |-> FALSE, rd |-> NilReader]
GetBodyOf(rd) == [set |-> TRUE, rd |-> rd]

\* Request.SetBody(body) for a body of type typ over len bytes at src.
SetBody(r, typ, src, len) ==
    LET r1 == [r EXCEPT !.Body = Reader(typ, src)]
        r2 == IF typ \in InMemoryTypes
              THEN [r1 EXCEPT !.ContentLength = len,
                              !.GetBody = GetBodyOf(Reader(typ, src))]
              ELSE r1
    IN  IF r2.GetBody.set /\ r2.ContentLength = 0
        THEN [r2 EXCEPT !.Body = NoBody, !.GetBody = GetBodyOf(NoBody)]
        ELSE r2

\* The body options of a request and the reader type each one hands to
\* SetBody: SetContent and SetText wrap a bytes.Buffer, SetJSON and SetXML a
\* bytes.Reader, the form binding a strings.Reader, SetMultipart a pipe, and
\* WithBody may be given any other stream.
BodyKinds == {"none", "content", "text", "json", "xml", "form", "multipart", "stream"}
ReaderType(kind) ==
    CASE kind \in {"content", "text"} -> "Buffer"
      [] kind \in {"json", "xml"} -> "bytes.Reader"
      [] kind = "form" -> "strings.Reader"
      [] kind = "multipart" -> "pipe"
      [] OTHER -> "stream"

NewReq == [Body |-> NilReader, GetBody |-> NilGetBody,
           ContentLength |-> 0, form |-> 0,
           Retry |-> [nil |-> TRUE, max |-> 0, ntrig |-> 0]]

\* The retry options of a request: none, or a policy with MaxAttempts and
\* either no trigger (ntrig = 0) or a custom one (ntrig = 1; revision A's
\* list of triggers is followed as one trigger, their disjunction).
RetryOptions ==
    {[nil |-> TRUE, max |-> 0, ntrig |-> 0]} \cup
    {[nil |-> FALSE, max |-> m, ntrig |-> t] : m \in -1..MaxTries, t \in 0..1}

\* NewRequest(method, url, opts...): the options applied to a new Request.
\* SetJSON marshals through a pooled buffer (jsonMarshal) and keeps the
\* slice buf.Bytes() it returned after the buffer went back to the pool.
\* SetForm only records the form (of n encoded bytes): the body is set from
\* it when the request is materialized.
NewRequest ==
    /\ pc = "new"
    /\ \E rv \in Revs, kind \in BodyKinds, n \in 0..MaxBody :
       \E ro \in RetryOptions :
          /\ kind = "none" => n = 0
          /\ kind \in {"json", "form"} => n >= 1
          /\ rev' = rv
          /\ LET r0 == [NewReq EXCEPT !.Retry = ro]
             IN  IF kind = "none"
                 THEN req' = r0 /\ UNCHANGED memVars
                 ELSE IF kind = "form"
                 THEN req' = [r0 EXCEPT !.form = n] /\ UNCHANGED memVars
                 ELSE IF kind = "json"
                 THEN \E b \in acquireBuffer :
                         /\ heap' = HeapAfter(b, Data(n))
                         /\ alloc' = AllocAfter(b, Data(n))
                         /\ pool' = releaseBuffer(b)
                         /\ req' = SetBody(r0, ReaderType(kind), Alias(b, n), n)
                 ELSE /\ req' = SetBody(r0, ReaderType(kind), Own(Data(n)), n)
                      /\ UNCHANGED memVars
    /\ pc' = "before"
    /\ hookIdx' = 1
    /\ UNCHANGED <<ctx, cancelAt, i, retry, allowRetry, resp, events, sent, timerFired>>
    /\ UNCHANGED respVars
    /\ UNCHANGED bldVars

\* ------------------------------------------------- before-request hooks
Event(e, k) == [e |-> e, k |-> k]

\* A variant of BeforeHook that goes on to the next hook after a failing
\* one; AbortOnBeforeHookError must tell it from the code.
BeforeHook_GoesOn ==
    /\ pc = "before"
    /\ hookIdx <= NHooks
    /\ \E ok \in BOOLEAN :
          /\ events' = IF ok THEN Append(events, Event("before", hookIdx))
                        ELSE events \o <<Event("before", hookIdx), Event("fail", hookIdx)>>
          /\ resp' = IF ok THEN resp ELSE [resp EXCEPT !.err = Err("before", hookIdx)]
          /\ hookIdx' = hookIdx + 1
          /\ UNCHANGED pc
    /\ UNCHANGED <<rev, req, ctx, cancelAt, i, retry, allowRetry, sent, timerFired>>
    /\ UNCHANGED memVars
    /\ UNCHANGED respVars
    /\ UNCHANGED bldVars

\* Client.Do and Client.onBeforeRequest: the hooks run in registration
\* order; the first error ends the send and becomes the response's error.
\* events records each call of hook k, and after it "fail" when the hook
\* returned an error.
BeforeHook ==
    /\ pc = "before"
    /\ hookIdx <= NHooks
    /\ \E ok \in BOOLEAN :
          IF ok
          THEN /\ events' = Append(events, Event("before", hookIdx))
               /\ hookIdx' = hookIdx + 1
               /\ UNCHANGED <<pc, resp>>
          ELSE /\ events' = events \o <<Event("before", hookIdx), Event("fail", hookIdx)>>
               /\ resp' = [resp EXCEPT !.err = Err("before", hookIdx)]
               /\ pc' = "done"
               /\ UNCHANGED hookIdx
    /\ UNCHANGED <<rev, req, ctx, cancelAt, i, retry, allowRetry, sent, timerFired>>
    /\ UNCHANGED memVars
    /\ UNCHANGED respVars
    /\ UNCHANGED bldVars

\* ------------------------------------------------------ the retry loop
DefaultPolicy == [nil |-> FALSE, max |-> defaultMaxAttempts, ntrig |-> 0]

\* Retry.Merge(defaultRetry): a nil policy is the default one; a zero
\* MaxAttempts and a nil Trigger take the default's.
Merge(r, r2) ==
    IF r.nil THEN r2
    ELSE [r EXCEPT !.max = IF r.max = 0 THEN r2.max ELSE r.max]

\* Revision A: a nil policy or MaxAttempts <= 0 is replaced by noRetry.
EffectiveRetryA(r) ==
    IF r.nil \/ r.max <= 0
    THEN [nil |-> FALSE, max |-> noRetryMaxAttempts, ntrig |-> 0]
    ELSE r

\* A variant of AllowRetry that lets every request be retried;
\* OneAttemptWhenNotReplayable must tell it from the code.
AllowRetry_Always(r) == TRUE

\* Revision B: a request may be retried when it has no body or its body
\* can be rewound.
AllowRetry(r) == r.Body = NilReader \/ r.GetBody.set

\* Revision A: a body that cannot be rewound is drained into a buffer first.
NeedsDrain(r, pol) == pol.max > 1 /\ r.Body # NilReader /\ ~r.GetBody.set

\* bindForm / the form part of Request.Decode: a non-empty form becomes
\* the body, a strings.Reader over its URL encoding.
BindForm(r) ==
    IF r.form > 0 THEN SetBody(r, "strings.Reader", Own(Data(r.form)), r.form) ELSE r

\* ctx.Err()
CtxErr(c) == IF c = "live" THEN NoErr ELSE Err(c, 0)

\* A variant of CtxDone that never sees the cancellation;
\* CancelledInFlight must tell it from the code.
CtxDone_Never(c) == FALSE

\* The test err = ctx.Err(); err != nil made when c.do has returned.
CtxDone(c) == CtxErr(c) # NoErr

\* The loop condition i < MaxAttempts on entry.
LoopEntered(pol) == 0 < pol.max

\* Entering onAfterResponse.
ToAfter == pc' = "after" /\ hookIdx' = 1

\* The start of doWithRetry, after the before-request hooks passed.
\* Revision B: Sync, Merge, allowRetry.  Revision A: noRetry, drainBody,
\* Decode, and the rate limiter's Wait.
Setup ==
    /\ pc = "before"
    /\ hookIdx = NHooks + 1
    /\ i' = 0
    /\ IF rev = "B"
       THEN LET r1 == BindForm(req)
                pol == Merge(r1.Retry, DefaultPolicy)
            IN  /\ req' = [r1 EXCEPT !.Retry = IF r1.Retry.nil THEN r1.Retry ELSE pol]
                /\ retry' = pol
                /\ allowRetry' = AllowRetry(r1)
                /\ IF LoopEntered(pol)
                   THEN pc' = "loop" /\ UNCHANGED hookIdx
                   ELSE ToAfter
                /\ UNCHANGED resp
       ELSE LET pol == EffectiveRetryA(req.Retry)
            IN  /\ retry' = pol
                /\ allowRetry' = TRUE
                /\ \E drained \in BOOLEAN, limited \in BOOLEAN :
                      IF NeedsDrain(req, pol) /\ ~drained
                      THEN /\ resp' = [resp EXCEPT !.err = Err("drain", 0)]
                           /\ req' = [req EXCEPT !.Retry = pol]
                           /\ ToAfter
                      ELSE /\ req' =
                                LET r1 == [req EXCEPT !.Retry = pol]
                                    r2 == IF NeedsDrain(req, pol)
                                          THEN SetBody(r1, "Buffer",
                                                       Own(RemainingIn(heap, r1.Body)),
                                                       Len(RemainingIn(heap, r1.Body)))
                                          ELSE r1
                                IN  BindForm(r2)
                           /\ IF limited
                              THEN /\ resp' = [resp EXCEPT !.err = Err("limiter", 0)]
                                   /\ ToAfter
                              ELSE /\ pc' = "loop"
                                   /\ UNCHANGED <<resp, hookIdx>>
    /\ UNCHANGED <<rev, ctx, cancelAt, events, sent, timerFired>>
    /\ UNCHANGED memVars
    /\ UNCHANGED respVars
    /\ UNCHANGED bldVars

\* How far the transport may leave a body reader at position p of len
\* bytes: untouched, read part-way, read to its end.
ReadTo(p, len) == {p, (p + len) \div 2, len}

\* The call c.do(req) of attempt i: the transport reads the body, all of it
\* or less.
Dispatch ==
    /\ pc = "loop"
    /\ sent' = Append(sent, RemainingIn(heap, req.Body))
    /\ events' = Append(events, Event("send", i))
    /\ \E p \in ReadTo(req.Body.pos, Len(ValIn(heap, req.Body.src))) :
          req' = [req EXCEPT !.Body.pos = p]
    /\ pc' = "inflight"
    /\ UNCHANGED <<rev, ctx, cancelAt, i, retry, allowRetry, resp, timerFired, hookIdx>>
    /\ UNCHANGED memVars
    /\ UNCHANGED respVars
    /\ UNCHANGED bldVars

\* What c.do returns: a response, a transport error, or both (a response
\* whose gzip header is bad, a failed redirect).
Outcomes(att) ==
    {[raw |-> Raw(200, att), err |-> NoErr],
     [raw |-> Raw(500, att), err |-> NoErr],
     [raw |-> NilRaw, err |-> Err("transport", att)],
     [raw |-> Raw(200, att), err |-> Err("transport", att)]}

\* A variant of IsLastAttempt that is off by one; SingleAttempt must tell
\* it from the code.
IsLastAttempt_OffByOne(idx, pol) == idx = pol.max

IsLastAttempt(idx, pol) == idx = pol.max - 1

\* A variant of DefaultTrigger that also asks for a retry of a response
\* with a server error status; RetryDecision must tell it from the code.
DefaultTrigger_Status(rs) == rs.err # NoErr \/ rs.raw.status >= 500

\* DefaultTrigger
DefaultTrigger(rs) == rs.err # NoErr

\* The request with its body rewound for the next attempt.
Rewind(r) == IF r.GetBody.set THEN [r EXCEPT !.Body = r.GetBody.rd] ELSE r

\* n calls of a trigger for attempt idx.
TriggerEvents(idx, n) == [j \in 1..n |-> Event("trigger", idx)]

\* The context's error replaces the attempt's.
CancelledResult(rs, c) == [rs EXCEPT !.err = CtxErr(c)]

\* A variant of StopsBeforeTrigger that always goes on to the trigger;
\* BoundedAttempts must tell it from the code.
StopsBeforeTrigger_Never(idx) == FALSE

\* Whether the loop stops after attempt idx before asking the trigger.
StopsBeforeTrigger(idx) ==
    IF rev = "B" THEN ~allowRetry \/ IsLastAttempt(idx, retry)
    ELSE IsLastAttempt(idx, retry)

\* Whether the body of what c.do returned is open: that of a response
\* returned without an error is; a response returned with an error has its
\* body closed already (RawClient.Do closed it, or c.do did before it put
\* the failed gzip reader in its place).
BodyOpen(o) == o.raw # NilRaw /\ o.err = NoErr

\* c.do returns for attempt i, and the loop body runs up to its select:
\* the context check, the last-attempt check, the trigger, the rewind and
\* the call of the backoff that starts the timer.  No path of the loop
\* closes the body of the response it leaves.
DoReturn ==
    /\ pc = "inflight"
    /\ \E o \in Outcomes(i) :
       /\ opened' = (IF opened # {} THEN {"superseded"} ELSE {})
                        \cup (IF BodyOpen(o) THEN {"current"} ELSE {})
       /\ LET rs == [resp EXCEPT !.raw = o.raw, !.err = o.err]
          IN  IF CtxDone(ctx)
              THEN /\ resp' = CancelledResult(rs, ctx)
                   /\ ToAfter
                   /\ UNCHANGED <<req, events, timerFired>>
              ELSE IF StopsBeforeTrigger(i)
              THEN /\ resp' = rs
                   /\ ToAfter
                   /\ UNCHANGED <<req, events, timerFired>>
              ELSE \E fired \in 0..retry.ntrig :
                      \* fired = 1: the custom trigger said yes.  Revision B calls
                      \* DefaultTrigger as a trigger; revision A, without custom
                      \* triggers, tests the error itself.
                      LET asked == IF retry.ntrig = 0 /\ rev = "A" THEN 0 ELSE 1
                          again == IF retry.ntrig = 0 THEN DefaultTrigger(rs)
                                   ELSE fired > 0
                      IN  /\ resp' = rs
                          /\ IF again
                             THEN /\ req' = Rewind(req)
                                  /\ events' = events \o TriggerEvents(i, asked)
                                                      \o <<Event("backoff", i)>>
                                  /\ timerFired' = FALSE
                                  /\ pc' = "select"
                                  /\ UNCHANGED hookIdx
                             ELSE /\ events' = events \o TriggerEvents(i, asked)
                                  /\ ToAfter
                                  /\ UNCHANGED <<req, timerFired>>
    /\ UNCHANGED <<rev, ctx, cancelAt, i, retry, allowRetry, sent>>
    /\ UNCHANGED memVars
    /\ UNCHANGED respVars
    /\ UNCHANGED bldOwn
    /\ UNCHANGED matVars
    /\ UNCHANGED fnVars

\* The select of the backoff wait finds a channel ready, or parks.
SelectPoll ==
    /\ pc = "select"
    /\ \/ /\ ~timerFired /\ ctx = "live"
          /\ pc' = "parked"
          /\ UNCHANGED <<i, resp, hookIdx>>
       \/ /\ timerFired
          /\ pc' = "loop"
          /\ i' = i + 1
          /\ UNCHANGED <<resp, hookIdx>>
       \/ /\ ctx # "live"
          /\ resp' = CancelledResult(resp, ctx)
          /\ ToAfter
          /\ UNCHANGED i
    /\ UNCHANGED <<rev, req, ctx, cancelAt, retry, allowRetry, events, sent, timerFired>>
    /\ UNCHANGED memVars
    /\ UNCHANGED respVars
    /\ UNCHANGED bldVars

\* The backoff timer fires; a parked select takes it and the loop goes on.
TimerFire ==
    /\ pc \in {"select", "parked"}
    /\ ~timerFired
    /\ timerFired' = TRUE
    /\ IF pc = "parked"
       THEN pc' = "loop" /\ i' = i + 1
       ELSE UNCHANGED <<pc, i>>
    /\ UNCHANGED <<rev, req, ctx, cancelAt, retry, allowRetry, resp, events, sent, hookIdx>>
    /\ UNCHANGED memVars
    /\ UNCHANGED respVars
    /\ UNCHANGED bldVars

\* The caller cancels the context, or its deadline expires; a parked
\* select takes ctx.Done() and the send returns the context's error.  A
\* request without a context (context.Background()) is one whose context is
\* never cancelled.  The loop first reads the context after c.do returns,
\* so a cancellation before an attempt is dispatched acts as one during
\* the attempt, and one after the loop is not seen by the send.
Cancel ==
    /\ pc \in {"inflight", "select", "parked"}
    /\ ctx = "live"
    /\ \E c \in {"canceled", "deadline"} :
          /\ ctx' = c
          /\ IF pc = "parked"
             THEN resp' = CancelledResult(resp, c) /\ ToAfter
             ELSE UNCHANGED <<pc, resp, hookIdx>>
    /\ cancelAt' = pc
    /\ UNCHANGED <<rev, req, i, retry, allowRetry, events, sent, timerFired>>
    /\ UNCHANGED memVars
    /\ UNCHANGED respVars
    /\ UNCHANGED bldVars

\* A variant of AfterHook that runs every hook whatever the response's
\* error; AfterHooksOnceInOrder must tell it from the code.
AfterHook_NoBreak ==
    /\ pc = "after"
    /\ \E does \in {"none", "raise"} :
          LET e2 == IF does = "raise" THEN Err("after", hookIdx) ELSE resp.err
          IN  /\ resp' = [resp EXCEPT !.err = e2]
              /\ events' = events \o <<Event("after", hookIdx)>>
                           \o (IF e2 # NoErr THEN <<Event("err", hookIdx)>> ELSE <<>>)
              /\ IF hookIdx = NHooks
                 THEN pc' = "done" /\ UNCHANGED hookIdx
                 ELSE hookIdx' = hookIdx + 1 /\ UNCHANGED pc
    /\ UNCHANGED <<rev, req, ctx, cancelAt, i, retry, allowRetry, sent, timerFired>>
    /\ UNCHANGED memVars
    /\ UNCHANGED respVars
    /\ UNCHANGED bldVars

\* ------------------------------------------------ after-response hooks
\* Client.onAfterResponse.  Revision B calls each hook and stops once the
\* response has an error; a hook may raise an error (RaiseError) or leave
\* the response alone.  Revision A runs no hook on a response with an
\* error, and stops at the first hook returning one.  events records each
\* call of hook k, and after it "err" when the response holds an error as
\* the hook returns.
AfterHook ==
    /\ pc = "after"
    /\ IF rev = "A" /\ resp.err # NoErr /\ hookIdx = 1
       THEN pc' = "done" /\ UNCHANGED <<resp, events, hookIdx>>
       ELSE \E does \in {"none", "raise"} :
               LET e2 == IF does = "raise" THEN Err("after", hookIdx) ELSE resp.err
               IN  /\ resp' = [resp EXCEPT !.err = e2]
                   /\ events' = events \o <<Event("after", hookIdx)>>
                                \o (IF e2 # NoErr THEN <<Event("err", hookIdx)>> ELSE <<>>)
                   /\ IF e2 # NoErr \/ hookIdx = NHooks
                      THEN pc' = "done" /\ UNCHANGED hookIdx
                      ELSE hookIdx' = hookIdx + 1 /\ UNCHANGED pc
    /\ UNCHANGED <<rev, req, ctx, cancelAt, i, retry, allowRetry, sent, timerFired>>
    /\ UNCHANGED memVars
    /\ UNCHANGED respVars
    /\ UNCHANGED bldVars

\* ------------------------------------------------- response decoding
\* One decode call as the caller saw it: the operation, the bytes it
\* returned or parsed, its error, and where the bytes came from ("stream",
\* "cache", or "none" when the call returned at once).
Call(op, val, err, src) == [op |-> op, val |-> val, err |-> err, src |-> src]
NoCall == Call("none", <<>>, NoErr, "none")

\* The history after call c returned.
Returns(c) ==
    /\ ncalls' = ncalls + 1
    /\ nreads' = IF c.src = "stream" THEN nreads + 1 ELSE nreads
    /\ first' = IF ncalls = 0 THEN c ELSE first
    /\ out' = c

\* gzip: a compressed body is a header byte followed by the deflated
\* bytes; Inflate undoes Gzip.
GzMagic == 31
Gzip(d) == <<GzMagic>> \o [j \in 1..Len(d) |-> d[j] + 50]
Inflate(w) == [j \in 1..(Len(w) - 1) |-> w[j + 1] - 50]

\* No gzip.Reader: RawResponse.Body is the transport's body.  Otherwise the
\* reader holds the decompressed form (plain) of the bytes its bufio.Reader
\* took from the transport's body, and whether that reader saw the EOF.
NoZr == [on |-> FALSE, plain |-> <<>>, eof |-> FALSE]
ZrOver(plain, eof) == [on |-> TRUE, plain |-> plain, eof |-> eof]

\* What RawResponse.Body delivers from its start.
Src == IF zr.on THEN zr.plain ELSE stream

\* What is left of the body stream, and the error reading it ends with: a
\* closed body gives nothing but an error, and so does a gzip.Reader that
\* has to go back to the transport's body, which Client.do closed.
Unread == IF closed THEN <<>> ELSE SubSeq(Src, spos + 1, Len(Src))
ReadErr ==
    IF closed \/ (IF zr.on THEN ~zr.eof ELSE sfail) THEN Err("read", 0) ELSE NoErr

\* The history value of the cache once the cache is sl in memory h.
Cached0After(h, sl) ==
    IF cached0.set \/ sl = NilSlice THEN cached0 ELSE [set |-> TRUE, v |-> ValIn(h, sl)]

\* e[0].NewDecoder().Bytes(b): the text decoded from charset e.
Decoded(b) == [j \in 1..Len(b) |-> b[j] + 100]

\* Response.Content, and Response.Text (op = "text", enc: an encoding is
\* given), which calls it: the cache when there is an error or a cache,
\* else ioutil.ReadAll of the stream into a new array, and Close.
ContentCall(op, enc) ==
    /\ pc = "decode"
    /\ ncalls < MaxCalls
    /\ IF resp.err # NoErr \/ body # NilSlice
       THEN /\ Returns(
                  Call(op, IF resp.err = NoErr /\ enc THEN Decoded(Val(body)) ELSE Val(body),
                       resp.err, IF body # NilSlice THEN "cache" ELSE "none"))
            /\ UNCHANGED <<spos, closed, body, cached0>>
       ELSE /\ body' = Own(Unread)
            /\ cached0' = Cached0After(heap, Own(Unread))
            /\ spos' = spos + Len(Unread)
            /\ closed' = TRUE
            /\ Returns(
                  Call(op, IF ReadErr = NoErr /\ enc THEN Decoded(Unread) ELSE Unread,
                       ReadErr, "stream"))
    /\ UNCHANGED <<stream, hdr, clen, zr, sfail, shape>>
    /\ UNCHANGED memVars
    /\ UNCHANGED doVars
    /\ UNCHANGED insVars
    /\ UNCHANGED bldVars

Content == ContentCall("content", FALSE)

Text == \E enc \in BOOLEAN : ContentCall("text", enc)

\* How many bytes a streaming decoder may take from a stream with n unread
\* bytes: it reads until its first value is complete or cannot be, which
\* may be before the end of the stream, or until the stream ends.
Consumed(n) == IF n = 0 THEN {0} ELSE 1..n

\* A body is a well-formed JSON document, a well-formed XML document, or
\* neither; an empty body is neither.
Shapes == {"json", "xml", "none"}

\* The error of a streaming decode of shape op that took k of the n unread
\* bytes: a body of another shape stops the decoder at a syntax error in
\* the bytes it took; a body of this shape decodes unless the stream gave
\* out first.
DecodeErr(op, k, n) ==
    IF k > 0 /\ shape # op THEN Err("decode", 0)
    ELSE IF k < n THEN NoErr
    ELSE IF ReadErr # NoErr THEN ReadErr
    ELSE IF k = 0 THEN Err("decode", 0)
    ELSE NoErr

\* json.Unmarshal / xml.Unmarshal of the cached bytes b: they must be the
\* whole of a document of shape op.
UnmarshalErr(op, b) ==
    IF shape = op /\ b = stream THEN NoErr ELSE Err("decode", 0)

\* Response.JSON and Response.XML: the error, else the cache when it is not
\* nil, else a decoder over a TeeReader that copies what the decoder reads
\* into a pooled buffer; the deferred function closes the body, makes
\* buf.Bytes() the cache and gives the buffer back to the pool.
DecodeCall(op) ==
    /\ pc = "decode"
    /\ ncalls < MaxCalls
    /\ IF resp.err # NoErr
       THEN /\ Returns(Call(op, <<>>, resp.err, "none"))
            /\ UNCHANGED <<spos, closed, body, cached0>>
            /\ UNCHANGED memVars
       ELSE IF body # NilSlice
       THEN /\ Returns(Call(op, Val(body), UnmarshalErr(op, Val(body)), "cache"))
            /\ UNCHANGED <<spos, closed, body, cached0>>
            /\ UNCHANGED memVars
       ELSE \E b \in acquireBuffer, k \in Consumed(Len(Unread)) :
               LET w == SubSeq(Unread, 1, k)
               IN  /\ heap' = HeapAfter(b, w)
                   /\ alloc' = AllocAfter(b, w)
                   /\ pool' = releaseBuffer(b)
                   /\ body' = BytesOf(AllocAfter(b, w), b, k)
                   /\ cached0' = Cached0After(HeapAfter(b, w), BytesOf(AllocAfter(b, w), b, k))
                   /\ spos' = spos + k
                   /\ closed' = TRUE
                   /\ Returns(Call(op, w, DecodeErr(op, k, Len(Unread)), "stream"))
    /\ UNCHANGED <<stream, hdr, clen, zr, sfail, shape>>
    /\ UNCHANGED doVars
    /\ UNCHANGED insVars
    /\ UNCHANGED bldVars

JSON == DecodeCall("json")

XML == DecodeCall("xml")

\* ---------------------------------------------- response inspection
\* The status codes a response may have and a caller may expect.
StatusCodes == {200, 204, 500}
Names == 1..NNames

Check(op, code, was) == [op |-> op, code |-> code, was |-> was]
NoCheck == Check("none", 0, NoErr)
Lookup(op, name, names, err) == [op |-> op, name |-> name, names |-> names, err |-> err]
NoLookup == Lookup("none", 0, {}, NoErr)

\* A variant of EnsureErr that sets the status error over an error the
\* Response already has; EnsureStatusFrame must tell it from the code.
EnsureErr_Overwrites(rs, ok) == IF ok THEN rs.err ELSE Err("status", rs.raw.status)

\* The error of Response rs after a status check that the status passes
\* (ok) or fails: an earlier error stays, else a failed check raises one.
EnsureErr(rs, ok) ==
    IF rs.err # NoErr THEN rs.err
    ELSE IF ok THEN NoErr
    ELSE Err("status", rs.raw.status)

\* Response.EnsureStatus(code), and EnsureStatusOk which calls it with 200.
EnsureStatus ==
    /\ pc = "decode"
    /\ \E code \in StatusCodes :
          /\ resp' = [resp EXCEPT !.err = EnsureErr(resp, resp.raw.status = code)]
          /\ chk' = Check("status", code, resp.err)
    /\ UNCHANGED <<pc, rev, req, ctx, cancelAt, i, retry, allowRetry, events, sent,
                   timerFired, hookIdx>>
    /\ UNCHANGED <<jar, got>>
    /\ UNCHANGED memVars
    /\ UNCHANGED decVars
    /\ UNCHANGED bldVars

\* Response.EnsureStatus2xx.
EnsureStatus2xx ==
    /\ pc = "decode"
    /\ resp' = [resp EXCEPT !.err = EnsureErr(resp, resp.raw.status \div 100 = 2)]
    /\ chk' = Check("2xx", 0, resp.err)
    /\ UNCHANGED <<pc, rev, req, ctx, cancelAt, i, retry, allowRetry, events, sent,
                   timerFired, hookIdx>>
    /\ UNCHANGED <<jar, got>>
    /\ UNCHANGED memVars
    /\ UNCHANGED decVars
    /\ UNCHANGED bldVars

\* Response.Cookies: the error, else the cookies of the raw response.
CookiesOf(rs) == IF rs.err # NoErr THEN {} ELSE jar

Cookies ==
    /\ pc = "decode"
    /\ got' = Lookup("cookies", 0, CookiesOf(resp), resp.err)
    /\ UNCHANGED <<jar, chk>>
    /\ UNCHANGED memVars
    /\ UNCHANGED doVars
    /\ UNCHANGED decVars
    /\ UNCHANGED bldVars

\* Response.Cookie(name): the error of Cookies, else the cookie of that
\* name, else ErrNoCookie.
Cookie ==
    /\ pc = "decode"
    /\ \E name \in Names :
          got' = IF resp.err # NoErr THEN Lookup("cookie", name, {}, resp.err)
                 ELSE IF name \in CookiesOf(resp) THEN Lookup("cookie", name, {name}, NoErr)
                 ELSE Lookup("cookie", name, {}, Err("nocookie", 0))
    /\ UNCHANGED <<jar, chk>>
    /\ UNCHANGED memVars
    /\ UNCHANGED doVars
    /\ UNCHANGED decVars
    /\ UNCHANGED bldVars

\* ------------------------------------------------- other pool users
\* Another operation of the package takes a buffer from bufPool, writes n
\* bytes and puts the buffer back: jsonMarshal for another request,
\* JSON()/XML() on another response (possibly called by a trigger).  It is
\* followed only where the program under study can see it.  A send sees it
\* when bufPool hands out the buffer whose array the request's body lies
\* in, before an attempt reads that body.  A Response sees it when the
\* buffer is the one its cache lies in, or, before the Response has a
\* cache, when the use turns a new buffer into a used one.
PooledBody(r, b) ==
    \/ r.Body.src.k = "buf" /\ r.Body.src.b = b
    \/ r.GetBody.rd.src.k = "buf" /\ r.GetBody.rd.src.b = b

PooledCache(b) ==
    \/ body.k = "buf" /\ body.b = b
    \/ body = NilSlice /\ b \notin alloc

OtherPoolUse ==
    /\ pc \in {"loop", "decode"}
    /\ \E b \in acquireBuffer, n \in 1..MaxBody :
          /\ pc = "loop" => PooledBody(req, b)
          /\ pc = "decode" => PooledCache(b)
          /\ heap' = HeapAfter(b, Other(n))
          /\ alloc' = AllocAfter(b, Other(n))
          /\ pool' = releaseBuffer(b)
    /\ UNCHANGED doVars
    /\ UNCHANGED respVars
    /\ UNCHANGED bldVars

\* ------------------------------------------------------ request options
MaxOpts == 3

\* Content-Type values: those the body options set, and two a caller sets.
JSONType == "application/json"
XMLType == "application/xml"
FormType == "application/x-www-form-urlencoded"
CallerTypes == {"text/custom", JSONType}

\* New(): the default transport, a cookie jar, the default timeout, no hook.
DefaultTimeout == 120
DefaultTransport == [kind |-> "http", Proxy |-> "env"]
NewClient == [Timeout |-> DefaultTimeout, Jar |-> "jar"]

\* No call configuring the client.
NoCfg == [how |-> "none", opts |-> <<>>, err |-> NoErr, ret |-> "none"]

\* The callers of Do, and a call not made yet: given is the request as its
\* caller made it (its retry policy; allow: it has no body, or one that can
\* be rewound), R its req.Retry; outs lists what each attempt returned (e)
\* and what a custom trigger said of it (t); lim: the limiter refused it.
Procs == {1, 2}
NoDo == [pc |-> "idle", given |-> [pol |-> NewReq.Retry, allow |-> TRUE],
         R |-> NewReq.Retry, pol |-> NewReq.Retry, outs |-> <<>>,
         lim |-> FALSE, err |-> NoErr]

\* No rate limiter (burst -1), or one with left of its burst tokens.
NoLimiter == [burst |-> -1, left |-> 0]

\* No multipart body: no producer.  Otherwise the producer (prod: where
\* the goroutine is) has left files to copy into the pipe; fault is the
\* failure met when at files are left ("filename": the file has no
\* filename, "read": reading it fails); rclosed: the read end of the pipe
\* is closed; errch: what the error channel holds.  History: failed, the
\* producer met an error; atReturn, it had when Client.do returned.
NoMp == [prod |-> "none", left |-> 0, fault |-> "none", at |-> 0,
         rclosed |-> FALSE, errch |-> NoErr, failed |-> FALSE,
         atReturn |-> FALSE]

\* ---------------------------------------------- materializing a request
\* sreq.go: the User-Agent of a request that sets none.
defaultUserAgent == "go-sreq"

\* A query: each key's value, "" for a key that is absent.  Keys and values
\* are plain words, which URLEncode writes and URL.Query() reads back as
\* they are.
Queries(val) == [Names -> {"", val}]

\* The Request NewRequest returns: the User-Agent and the Content-Type its
\* options put in its headers ("": none), its form, the names of its
\* cookies, its query parameters and its body.
Built(ua, ct, form, cookies, params, content) ==
    [ua |-> ua, optUA |-> ua # "", ct |-> ct, form |-> form,
     cookies |-> cookies, params |-> params, body |-> content]
Builders ==
    {Built(ua, ct, form, ck, q, b) :
        ua \in {"", "option"}, ct \in {"", "text/custom"}, form \in BOOLEAN,
        ck \in SUBSET Names, q \in Queries("param"), b \in {"none", "content"}}
NoBuilt == Built("", "", FALSE, {}, [k \in Names |-> ""], "none")

\* The raw request http.NewRequest(method, url, nil) returns, for a URL
\* with the query q: no header, no cookie, no body.
NewRaw(q) ==
    [query |-> q, ua |-> "", ct |-> "", cookie |-> [k \in Names |-> 0],
     body |-> "none"]
NoHooked == [ua |-> "", ct |-> "", setUA |-> FALSE, setCT |-> FALSE]

\* What a before-request hook does to the headers: nothing, Headers.Set or
\* Headers.SetDefault (SetUserAgentDefault, SetContentTypeDefault).
HookDoes ==
    {"nothing", "SetUserAgent", "SetUserAgentDefault",
     "SetContentType", "SetContentTypeDefault"}

\* The value hook k gives to a header.
HookValue(k) == CASE k = 1 -> "hook1" [] k = 2 -> "hook2" [] OTHER -> "hook3"

\* Headers.Set and Headers.SetDefault on one header.
Set(old, v) == v
SetDefault(old, v) == IF old = "" THEN v ELSE old

\* What a step of the materializing leaves alone.
MatFrame ==
    /\ UNCHANGED <<rev, req, ctx, cancelAt, retry, allowRetry, resp, events,
                   sent, timerFired>>
    /\ UNCHANGED memVars
    /\ UNCHANGED respVars
    /\ UNCHANGED bldOwn
    /\ UNCHANGED opened
    /\ UNCHANGED fnVars

\* Client.onBeforeRequest, one hook: the hooks run at the start of Do, on
\* the Request, before it is materialized.
RequestHook ==
    /\ pc \in {"built", "hooks"}
    /\ hookIdx <= NHooks
    /\ pc' = "hooks"
    /\ hookIdx' = hookIdx + 1
    /\ \E does \in HookDoes :
          LET v == HookValue(hookIdx)
              ua2 == CASE does = "SetUserAgent" -> Set(bq.ua, v)
                       [] does = "SetUserAgentDefault" -> SetDefault(bq.ua, v)
                       [] OTHER -> bq.ua
              ct2 == CASE does = "SetContentType" -> Set(bq.ct, v)
                       [] does = "SetContentTypeDefault" -> SetDefault(bq.ct, v)
                       [] OTHER -> bq.ct
          IN  /\ bq' = [bq EXCEPT !.ua = ua2, !.ct = ct2]
              /\ hooked' = [ua |-> ua2, ct |-> ct2,
                            setUA |-> hooked.setUA \/ ua2 # bq.ua,
                            setCT |-> hooked.setCT \/ ct2 # bq.ct]
    /\ UNCHANGED <<i, rw, ndecode, once, onwire>>
    /\ MatFrame

\* The query part of Decode: the keys of the URL's query become defaults of
\* the parameters, and the parameters the URL's query.
HasParams(b) == \E k \in Names : b.params[k] # ""
MergedQuery(b, r) ==
    [k \in Names |-> SetDefault(b.params[k], r.query[k])]

\* The Request's own fields after Decode, which writes to them: the merged
\* query, the form's Content-Type, the default User-Agent.
DecodedFields(b, r) ==
    [b EXCEPT !.params = IF HasParams(b) THEN MergedQuery(b, r) ELSE @,
              !.ct = IF b.form THEN Set(@, FormType) ELSE @,
              !.ua = SetDefault(@, defaultUserAgent)]

\* The raw request after Decode: the query, the headers copied over those
\* of the same name, each cookie added to the Cookie header (AddCookie
\* appends to what the header holds), the form as the body.
DecodedRaw(b, r) ==
    LET b2 == DecodedFields(b, r)
    IN  [query |-> IF HasParams(b) THEN b2.params ELSE r.query,
         ua |-> b2.ua,
         ct |-> IF b2.ct = "" THEN r.ct ELSE b2.ct,
         cookie |-> [k \in Names |->
                        r.cookie[k] + (IF k \in b.cookies THEN 1 ELSE 0)],
         body |-> IF b.form THEN "form" ELSE b.body]

\* Request.Decode (revision B: Request.bind): called by the caller itself,
\* also through Dump and ExportCURLCommand, on a Request not yet sent, and
\* by the send once the before-request hooks have run.
Decode ==
    /\ \/ /\ pc = "built"
          /\ rev = "A"
          /\ ndecode < MaxCalls
          /\ UNCHANGED pc
       \/ /\ pc = "hooks"
          /\ hookIdx = NHooks + 1
          /\ pc' = "ready"
    /\ bq' = DecodedFields(bq, rw)
    /\ rw' = DecodedRaw(bq, rw)
    /\ ndecode' = ndecode + 1
    /\ once' = IF ndecode = 0 THEN DecodedRaw(bq, rw) ELSE once
    /\ UNCHANGED <<i, hookIdx, hooked, onwire>>
    /\ MatFrame

\* c.do, one attempt: the transport writes the raw request's headers.
SendAttempt ==
    /\ pc = "ready"
    /\ i < MaxTries
    /\ i' = i + 1
    /\ onwire' = Append(onwire, [ua |-> rw.ua, ct |-> rw.ct])
    /\ UNCHANGED <<pc, hookIdx, bq, rw, ndecode, once, hooked>>
    /\ MatFrame

\* No request is being materialized.
MatIdle ==
    /\ bq = NoBuilt
    /\ rw = NewRaw([k \in Names |-> ""])
    /\ ndecode = 0
    /\ once = NewRaw([k \in Names |-> ""])
    /\ hooked = NoHooked
    /\ onwire = <<>>

\* What a call of one of the library's functions leaves alone.
FnFrame ==
    /\ UNCHANGED doVars
    /\ UNCHANGED memVars
    /\ UNCHANGED respVars
    /\ UNCHANGED bldOwn
    /\ UNCHANGED opened
    /\ UNCHANGED matVars

\* ------------------------------------------------------ DefaultBackoff
\* Durations are in nanoseconds; MaxWait is the longest one given as an
\* argument.
MaxWait == 6
\* retry.go:176: math.MaxInt32
MaxInt32 == 2147483647

\* math.Exp2(float64(attempt)) and math.Min, exact on numbers this small.
Exp2(k) == 2 ^ k
Min(a, b) == IF a <= b THEN a ELSE b

\* rand.Intn(n): any of 0 .. n-1.  The integers here end at MaxInt32 (an
\* int of the code has 64 bits): of the outcomes for n = MaxInt32 the one
\* kept is 0, the others making the sum n + rand.Intn(n) larger still.
Intn(n) == IF n = MaxInt32 THEN {0} ELSE 0..(n - 1)

\* The n of DefaultBackoff: int(temp / 2), replaced by MaxInt32 when it is
\* not positive.
JitterBase(min, max, attempt) ==
    LET temp == Min(max, min * Exp2(attempt))
        n == temp \div 2
    IN  IF n <= 0 THEN MaxInt32 ELSE n

\* DefaultBackoff(min, max, attempt, resp) for the outcome j of rand.Intn.
Sleep(min, max, attempt, j) ==
    LET sleep == JitterBase(min, max, attempt) + j
    IN  IF sleep < min THEN min ELSE sleep

NoBackoff == [min |-> 0, max |-> 0, attempt |-> 0, called |-> FALSE, sleep |-> 0]

\* A call of DefaultBackoff.
DefaultBackoff ==
    /\ pc = "backoff"
    /\ ~bo.called
    /\ \E j \in Intn(JitterBase(bo.min, bo.max, bo.attempt)) :
          bo' = [bo EXCEPT !.called = TRUE,
                           !.sleep = Sleep(bo.min, bo.max, bo.attempt, j)]
    /\ UNCHANGED <<vb, ue>>
    /\ FnFrame

\* -------------------------------------------------- the verb helpers
\* The package's GlobalClient and the Clients a caller made with New.
Clients == {"GlobalClient", "client1", "client2"}
Methods == {"GET", "HEAD", "POST", "PUT", "PATCH", "DELETE"}

NoVerbs == [n |-> 0, on |-> "GlobalClient", method |-> "GET",
            via |-> "GlobalClient", sends |-> [c \in Clients |-> 0]]

\* c.Send(method, url, opts...): Client c makes the request and sends it.
Send(c, on, method) ==
    /\ vb.n < MaxCalls
    /\ vb' = [n |-> vb.n + 1, on |-> on, method |-> method, via |-> c,
              sends |-> [vb.sends EXCEPT ![c] = @ + 1]]
    /\ UNCHANGED <<bo, ue>>
    /\ FnFrame

\* Client.Get, Head (HeadRequest here), Post, Put, Patch and Delete,
\* called on Client c (the package's functions of these names call them on
\* GlobalClient).
Get == pc = "verbs" /\ \E c \in Clients : Send(c, c, "GET")
HeadRequest == pc = "verbs" /\ \E c \in Clients : Send(c, c, "HEAD")
Post == pc = "verbs" /\ \E c \in Clients : Send(c, c, "POST")
Put == pc = "verbs" /\ \E c \in Clients : Send("GlobalClient", c, "PUT")
Patch == pc = "verbs" /\ \E c \in Clients : Send(c, c, "PATCH")
Delete == pc = "verbs" /\ \E c \in Clients : Send(c, c, "DELETE")

\* ---------------------------------------------------- Values.URLEncode
\* Texts are sequences of characters.  The keys and the values a Values
\* holds here; the space is the character QueryEscape changes.
MaxVals == 2
KeyTexts == {<<"a">>, <<"a", " ">>, <<"b">>}
ValTexts == {<<"x">>, <<" ">>}
ValLists == UNION {[1..n -> ValTexts] : n \in 0..MaxVals}

\* A Values: the values of each key, none for a key it does not hold.
ValuesMaps == [KeyTexts -> ValLists]

\* The byte of a character, by which sort.Strings orders.
Code(c) ==
    CASE c = " " -> 32 [] c = "%" -> 37 [] c = "+" -> 43 [] c = "0" -> 48
      [] c = "2" -> 50 [] c = "5" -> 53 [] c = "B" -> 66 [] c = "a" -> 97
      [] c = "b" -> 98 [] OTHER -> 120

RECURSIVE Less(_, _)
Less(s, t) ==
    IF t = <<>> THEN FALSE
    ELSE IF s = <<>> THEN TRUE
    ELSE IF Code(Head(s)) # Code(Head(t)) THEN Code(Head(s)) < Code(Head(t))
    ELSE Less(Tail(s), Tail(t))

\* sort.Strings(keys)
RECURSIVE Sorted(_)
Sorted(ks) ==
    IF ks = {} THEN <<>>
    ELSE LET least == CHOOSE k \in ks : \A o \in ks \ {k} : Less(k, o)
         IN  <<least>> \o Sorted(ks \ {least})

\* neturl.QueryEscape: a space becomes "+", and "+" and "%" their
\* percent-encodings; letters and digits stay.
RECURSIVE QueryEscape(_)
QueryEscape(s) ==
    IF s = <<>> THEN <<>>
    ELSE (CASE Head(s) = " " -> <<"+">>
            [] Head(s) = "+" -> <<"%", "2", "B">>
            [] Head(s) = "%" -> <<"%", "2", "5">>
            [] OTHER -> <<Head(s)>>) \o QueryEscape(Tail(s))

\* The pairs the inner loop of URLEncode writes for key k, the variable k
\* holding the text kt when it comes to the value at position j: with
\* escaped set, k = QueryEscape(k) is assigned for each value.
RECURSIVE PairsOf(_, _, _, _)
PairsOf(kt, vs, j, escaped) ==
    IF j > Len(vs) THEN <<>>
    ELSE LET k2 == IF escaped THEN QueryEscape(kt) ELSE kt
             v2 == IF escaped THEN QueryEscape(vs[j]) ELSE vs[j]
         IN  <<[k |-> k2, v |-> v2]>> \o PairsOf(k2, vs, j + 1, escaped)

\* The text URLEncode builds, k=v&k=v..., as the sequence of its pairs.
RECURSIVE EncodeFrom(_, _, _)
EncodeFrom(v, keys, escaped) ==
    IF keys = <<>> THEN <<>>
    ELSE PairsOf(Head(keys), v[Head(keys)], 1, escaped)
            \o EncodeFrom(v, Tail(keys), escaped)

NoEncode == [v |-> [k \in KeyTexts |-> <<>>], escaped |-> FALSE,
             called |-> FALSE, out |-> <<>>]

\* Values.URLEncode(escaped)
URLEncode ==
    /\ pc = "encode"
    /\ ~ue.called
    /\ ue' = [ue EXCEPT !.called = TRUE,
                          !.out = EncodeFrom(ue.v, Sorted(KeyTexts), ue.escaped)]
    /\ UNCHANGED <<bo, vb>>
    /\ FnFrame

\* None of these functions is being called.
FnIdle ==
    /\ bo = NoBackoff
    /\ vb = NoVerbs
    /\ ue = NoEncode

\* No send has left a body behind.
MoreIdle ==
    /\ opened = {}
    /\ MatIdle
    /\ FnIdle

\* No option applied, nothing materialized.
BldOwnIdle ==
    /\ hd = ""
    /\ wire = "unsent"
    /\ caller = ""
    /\ bodyCT = ""
    /\ nopts = 0
    /\ mp = NoMp
    /\ tr = "idle"
    /\ cl = NewClient
    /\ tp = DefaultTransport
    /\ cfg = NoCfg
    /\ calls = [p \in Procs |-> NoDo]
    /\ defaultRetry = DefaultPolicy
    /\ tokens = NoLimiter

BldIdle ==
    /\ BldOwnIdle
    /\ MoreIdle

\* Headers.Set("Content-Type", ct)
SetContentType(h, ct) == ct

\* Headers.Update(headers), for headers with a Content-Type ct or none ("").
Update(h, ct) == IF ct = "" THEN h ELSE SetContentType(h, ct)

\* An option leaves the send state alone.
OptionFrame ==
    /\ pc = "opts"
    /\ nopts < MaxOpts
    /\ nopts' = nopts + 1
    /\ UNCHANGED <<pc, rev, ctx, cancelAt, i, retry, allowRetry, resp, events,
                   sent, timerFired, hookIdx, wire, mp, tr>>
    /\ UNCHANGED cliVars
    /\ UNCHANGED moreVars
    /\ UNCHANGED conVars
    /\ UNCHANGED respVars

\* WithContentType(ct)
WithContentType ==
    /\ OptionFrame
    /\ \E ct \in CallerTypes :
          /\ hd' = SetContentType(hd, ct)
          /\ caller' = ct
    /\ UNCHANGED <<req, bodyCT>>
    /\ UNCHANGED memVars

\* WithHeaders(headers)
WithHeaders ==
    /\ OptionFrame
    /\ \E ct \in CallerTypes \cup {""} :
          /\ hd' = Update(hd, ct)
          /\ caller' = IF ct = "" THEN caller ELSE ct
    /\ UNCHANGED <<req, bodyCT>>
    /\ UNCHANGED memVars

\* WithJSON(data): SetJSON marshals through a pooled buffer, sets the
\* Content-Type and the body.
WithJSON ==
    /\ OptionFrame
    /\ \E n \in 1..MaxBody, b \in acquireBuffer :
          /\ heap' = HeapAfter(b, Data(n))
          /\ alloc' = AllocAfter(b, Data(n))
          /\ pool' = releaseBuffer(b)
          /\ req' = SetBody(req, "bytes.Reader", Alias(b, n), n)
    /\ hd' = SetContentType(hd, JSONType)
    /\ bodyCT' = JSONType
    /\ UNCHANGED caller

\* WithXML(data)
WithXML ==
    /\ OptionFrame
    /\ \E n \in 1..MaxBody : req' = SetBody(req, "bytes.Reader", Own(Data(n)), n)
    /\ hd' = SetContentType(hd, XMLType)
    /\ bodyCT' = XMLType
    /\ UNCHANGED caller
    /\ UNCHANGED memVars

\* WithForm(form): SetForm records the form.
WithForm ==
    /\ OptionFrame
    /\ \E n \in 1..MaxBody : req' = [req EXCEPT !.form = n]
    /\ UNCHANGED <<hd, caller, bodyCT>>
    /\ UNCHANGED memVars

\* The Content-Type after bindForm / the form part of Request.Decode.
FormContentType(r, h) == IF r.form > 0 THEN SetContentType(h, FormType) ELSE h

\* Request.bind / Request.Decode: the form becomes the body and sets the
\* Content-Type, then the headers are copied to the raw request.
bind ==
    /\ pc = "opts"
    /\ pc' = "bound"
    /\ req' = BindForm(req)
    /\ hd' = FormContentType(req, hd)
    /\ wire' = hd'
    /\ bodyCT' = IF req.form > 0 THEN FormType ELSE bodyCT
    /\ UNCHANGED <<rev, ctx, cancelAt, i, retry, allowRetry, resp, events,
                   sent, timerFired, hookIdx, caller, nopts, mp, tr>>
    /\ UNCHANGED cliVars
    /\ UNCHANGED moreVars
    /\ UNCHANGED conVars
    /\ UNCHANGED memVars
    /\ UNCHANGED respVars

\* ------------------------------------------------------ multipart bodies
MaxParts == 2
MultipartType == "multipart/form-data"
Faults == {"none", "filename", "read"}

\* What a step of the producer, of the transport or of the caller of a
\* multipart request leaves alone.
MpFrame ==
    /\ UNCHANGED <<rev, ctx, cancelAt, i, retry, allowRetry, events, sent,
                   timerFired, hookIdx, wire, caller, bodyCT, nopts>>
    /\ UNCHANGED cliVars
    /\ UNCHANGED moreVars
    /\ UNCHANGED conVars
    /\ UNCHANGED memVars
    /\ UNCHANGED respVars

\* Request.SetMultipart(files, form): a pipe, a goroutine writing the files
\* and the form to it, the Content-Type, and the read end as the body.
SetMultipart ==
    /\ pc = "opts"
    /\ mp.prod = "none"
    /\ \E k \in 0..MaxParts, f \in Faults :
       \E a \in 0..k :
          /\ (f = "none") <=> (a = 0)
          /\ mp' = [NoMp EXCEPT !.prod = "run", !.left = k, !.fault = f, !.at = a]
    /\ req' = SetBody(req, ReaderType("multipart"), Own(<<>>), 0)
    /\ hd' = SetContentType(hd, MultipartType)
    /\ UNCHANGED <<pc, resp, tr>>
    /\ MpFrame

\* The producer after setMultipartFiles returned an error.
Failed(m) == [m EXCEPT !.prod = "report", !.failed = TRUE]

\* setMultipartFiles, one file: a file without a filename is an error in
\* revision B (revision A names it "file"); CreatePart and io.Copy write to
\* the pipe, which fails when its read end is closed and waits until the
\* transport reads otherwise; a read error of the file ends the copy.
CopyFile ==
    /\ mp.prod = "run"
    /\ mp.left > 0
    /\ LET faulty == mp.fault # "none" /\ mp.left = mp.at
           nameless == faulty /\ mp.fault = "filename" /\ rev = "B"
       IN  /\ nameless \/ mp.rclosed \/ tr = "sending"
           /\ mp' = IF nameless \/ mp.rclosed \/ (faulty /\ mp.fault = "read")
                     THEN Failed(mp)
                     ELSE [mp EXCEPT !.left = @ - 1]
    /\ UNCHANGED <<pc, req, hd, resp, tr>>
    /\ MpFrame

\* setMultipartFiles returned nil: the form is written (errors ignored).
FilesDone ==
    /\ mp.prod = "run"
    /\ mp.left = 0
    /\ mp' = [mp EXCEPT !.prod = "trailer"]
    /\ UNCHANGED <<pc, req, hd, resp, tr>>
    /\ MpFrame

\* The producer's error: sent on the channel (revision B, capacity 1) or
\* logged (revision A).
Report ==
    /\ mp.prod = "report"
    /\ mp' = [mp EXCEPT !.prod = "trailer",
                        !.errch = IF rev = "B" THEN Err("multipart", 0) ELSE @]
    /\ UNCHANGED <<pc, req, hd, resp, tr>>
    /\ MpFrame

\* defer mw.Close(): the closing boundary is written to the pipe.
Trailer ==
    /\ mp.prod = "trailer"
    /\ mp.rclosed \/ tr = "sending"
    /\ mp' = [mp EXCEPT !.prod = "close"]
    /\ UNCHANGED <<pc, req, hd, resp, tr>>
    /\ MpFrame

\* defer pw.Close()
PwClose ==
    /\ mp.prod = "close"
    /\ mp' = [mp EXCEPT !.prod = "done"]
    /\ UNCHANGED <<pc, req, hd, resp, tr>>
    /\ MpFrame

\* A later option or a before-request hook fails: the request is not sent.
BuildFails ==
    /\ pc = "opts"
    /\ pc' = "returned"
    /\ resp' = [raw |-> NilRaw, err |-> Err("build", 0)]
    /\ UNCHANGED <<req, hd, mp, tr>>
    /\ MpFrame

\* Client.do calls RawClient.Do: the transport starts reading the body.
RoundTrip ==
    /\ pc = "opts"
    /\ mp.prod # "none"
    /\ pc' = "do"
    /\ tr' = "sending"
    /\ UNCHANGED <<req, hd, resp, mp>>
    /\ MpFrame

\* The transport reads the end of the pipe.
BodyEOF ==
    /\ tr = "sending"
    /\ mp.prod = "done"
    /\ tr' = "sentall"
    /\ UNCHANGED <<pc, req, hd, resp, mp>>
    /\ MpFrame

\* RawClient.Do returns: the server answered (after the whole body, or
\* without waiting for it), or the exchange failed.
DoReturns ==
    /\ tr \in {"sending", "sentall"}
    /\ tr' = "returned"
    /\ resp' \in {[raw |-> Raw(200, 0), err |-> NoErr],
                  [raw |-> NilRaw, err |-> Err("transport", 0)]}
    /\ UNCHANGED <<pc, req, hd, mp>>
    /\ MpFrame

\* The transport closes the request body when it is done with it.
CloseBody ==
    /\ tr = "returned"
    /\ ~mp.rclosed
    /\ mp' = [mp EXCEPT !.rclosed = TRUE]
    /\ UNCHANGED <<pc, req, hd, resp, tr>>
    /\ MpFrame

\* Client.do after RawClient.Do returned: its error if any; in revision B
\* the error the channel holds at that moment, if any (select, default).
SelectErr ==
    /\ pc = "do"
    /\ tr = "returned"
    /\ pc' = "returned"
    /\ LET taken == resp.err = NoErr /\ rev = "B" /\ mp.errch # NoErr
       IN  /\ resp' = IF taken THEN [resp EXCEPT !.err = mp.errch] ELSE resp
           /\ mp' = [mp EXCEPT !.errch = IF taken THEN NoErr ELSE @,
                               !.atReturn = mp.failed]
    /\ UNCHANGED <<req, hd, tr>>
    /\ MpFrame

\* ------------------------------------------------------ client options
\* Client options: a timeout, a proxy from a URL that parses ("good") or
\* not ("bad"), no cookie jar, a transport that is not an *http.Transport.
ClientOptions ==
    {[op |-> "SetTimeout", arg |-> 30],
     [op |-> "SetProxyFromURL", arg |-> "good"],
     [op |-> "SetProxyFromURL", arg |-> "bad"],
     [op |-> "DisableSession", arg |-> ""],
     [op |-> "SetTransport", arg |-> "custom"]}

OptionLists == UNION {[1..n -> ClientOptions] : n \in 0..MaxOpts}

\* A client c with its transport t, and the error of the last option.
Configured(c, t, err) == [cl |-> c, tp |-> t, err |-> err]

\* Client.httpTransport
httpTransportErr(t) == IF t.kind = "http" THEN NoErr ELSE Err("transport", 1)

\* opt(c) for one client option.
Apply(o, s) ==
    CASE o.op = "SetTimeout" ->
            Configured([s.cl EXCEPT !.Timeout = o.arg], s.tp, NoErr)
      [] o.op = "DisableSession" ->
            Configured([s.cl EXCEPT !.Jar = "nil"], s.tp, NoErr)
      [] o.op = "SetTransport" ->
            Configured(s.cl, [kind |-> o.arg, Proxy |-> "none"], NoErr)
      [] o.op = "SetProxyFromURL" ->
            IF o.arg = "bad" THEN Configured(s.cl, s.tp, Err("url", 0))
            ELSE IF httpTransportErr(s.tp) # NoErr
            THEN Configured(s.cl, s.tp, httpTransportErr(s.tp))
            ELSE Configured(s.cl, [s.tp EXCEPT !.Proxy = o.arg], NoErr)

\* for _, opt := range opts { if err = opt(c); err != nil { break } }
RECURSIVE ApplyFrom(_, _, _)
ApplyFrom(opts, k, s) ==
    IF k > Len(opts) \/ s.err # NoErr THEN s
    ELSE ApplyFrom(opts, k + 1, Apply(opts[k], s))

\* What a call configuring the client leaves alone.
CfgFrame ==
    /\ UNCHANGED doVars
    /\ UNCHANGED memVars
    /\ UNCHANGED respVars
    /\ UNCHANGED <<hd, wire, caller, bodyCT, nopts, mp, tr>>
    /\ UNCHANGED conVars
    /\ UNCHANGED moreVars

\* Client.Configure(opts...): the options are applied to the client, up to
\* the first that fails; its error is returned.
Configure ==
    /\ cfg.how = "none"
    /\ \E opts \in OptionLists :
          LET s == ApplyFrom(opts, 1, Configured(cl, tp, NoErr))
          IN  /\ cl' = s.cl
              /\ tp' = s.tp
              /\ cfg' = [how |-> "Configure", opts |-> opts, err |-> s.err,
                         ret |-> "client"]
    /\ CfgFrame

\* New(transport, opts...) of the revision with options returning the
\* client: the options are applied to a new Client over the transport, and
\* nil is returned with the error of the first that fails.
New ==
    /\ cfg.how = "none"
    /\ \E opts \in OptionLists :
          LET c0 == [Timeout |-> 0, Jar |-> "nil"]
              s == ApplyFrom(opts, 1, Configured(c0, tp, NoErr))
          IN  /\ cl' = s.cl
              /\ tp' = s.tp
              /\ cfg' = [how |-> "New", opts |-> opts, err |-> s.err,
                         ret |-> IF s.err # NoErr THEN "nil" ELSE "client"]
    /\ CfgFrame

\* ------------------------------------------------------ concurrent calls
\* What a step of a Do call leaves alone.
ConFrame ==
    /\ UNCHANGED doVars
    /\ UNCHANGED memVars
    /\ UNCHANGED respVars
    /\ UNCHANGED <<hd, wire, caller, bodyCT, nopts, mp, tr>>
    /\ UNCHANGED cliVars
    /\ UNCHANGED moreVars

\* The requests given to Do.
Given == [pol : RetryOptions, allow : BOOLEAN]

\* A variant of DefaultAfterMerge in which Merge writes the request's
\* MaxAttempts into the policy it is merged with; CallsIndependentButLimiter must
\* tell it from the code.
DefaultAfterMerge_Written(r, r2) == IF r.nil THEN r2 ELSE [r2 EXCEPT !.max = r.max]

\* The policy r2 after r.Merge(r2): Merge assigns fields of r only.
DefaultAfterMerge(r, r2) == r2

\* Client.Do up to the retry loop, for a request g.  Revision B: Merge
\* with the default policy, allowRetry.  Revision A: noRetry, and the wait
\* for the limiter, which takes a token or, with none left, fails when the
\* request's context ends first.
DoStart(p) ==
    /\ calls[p].pc = "idle"
    /\ \E g \in Given :
          LET pol == IF rev = "B" THEN Merge(g.pol, defaultRetry)
                     ELSE EffectiveRetryA(g.pol)
              limited == rev = "A" /\ tokens.burst >= 0
              refused == limited /\ tokens.left = 0
              c1 == [calls[p] EXCEPT
                        !.given = [g EXCEPT !.allow = IF rev = "B" THEN @ ELSE TRUE],
                        !.R = IF rev = "B" /\ g.pol.nil THEN g.pol ELSE pol,
                        !.pol = pol]
          IN  /\ rev = "A" => g.allow
              /\ defaultRetry' = IF rev = "B"
                                 THEN DefaultAfterMerge(g.pol, defaultRetry)
                                 ELSE defaultRetry
              /\ tokens' = IF limited /\ ~refused
                           THEN [tokens EXCEPT !.left = @ - 1] ELSE tokens
              /\ calls' = [calls EXCEPT ![p] =
                    IF refused
                    THEN [c1 EXCEPT !.pc = "done", !.lim = TRUE,
                                    !.err = Err("limiter", 0)]
                    ELSE IF LoopEntered(pol) THEN [c1 EXCEPT !.pc = "loop"]
                    ELSE [c1 EXCEPT !.pc = "done"]]
    /\ ConFrame

\* One turn of the retry loop of call p: c.do returns e, then the last
\* attempt check, the trigger, and the backoff wait.
DoAttempt(p) ==
    /\ calls[p].pc = "loop"
    /\ \E e \in {"ok", "fail"}, t \in BOOLEAN :
          LET c == calls[p]
              idx == Len(c.outs)
              rs == [raw |-> NilRaw,
                     err |-> IF e = "fail" THEN Err("transport", 0) ELSE NoErr]
              stops == (rev = "B" /\ ~c.given.allow) \/ IsLastAttempt(idx, c.pol)
              again == IF c.pol.ntrig = 0 THEN DefaultTrigger(rs) ELSE t
          IN  /\ (c.pol.ntrig = 0 \/ stops) => ~t
              /\ calls' = [calls EXCEPT ![p] =
                    [c EXCEPT !.outs = Append(@, [e |-> e, t |-> t]),
                              !.err = rs.err,
                              !.pc = IF stops \/ ~again THEN "done" ELSE "loop"]]
    /\ UNCHANGED <<defaultRetry, tokens>>
    /\ ConFrame

\* Time passes: the limiter has a token again.
Refill ==
    /\ tokens.burst >= 0
    /\ tokens.left < tokens.burst
    /\ tokens' = [tokens EXCEPT !.left = @ + 1]
    /\ UNCHANGED <<calls, defaultRetry>>
    /\ ConFrame

\* ------------------------------------------------------ specification
NoCache == [set |-> FALSE, v |-> <<>>]

Init ==
    /\ heap = [b \in Buffers |-> <<>>]
    /\ alloc = {}
    /\ pool = {}
    /\ pc = "new"
    /\ rev = "B"
    /\ req = NewReq
    /\ ctx = "live"
    /\ cancelAt = "none"
    /\ i = 0
    /\ retry = DefaultPolicy
    /\ allowRetry = TRUE
    /\ resp = [raw |-> NilRaw, err |-> NoErr]
    /\ events = <<>>
    /\ sent = <<>>
    /\ timerFired = FALSE
    /\ hookIdx = 1
    /\ stream = <<>>
    /\ hdr = ""
    /\ clen = 0
    /\ zr = NoZr
    /\ sfail = FALSE
    /\ shape = "none"
    /\ spos = 0
    /\ closed = FALSE
    /\ body = NilSlice
    /\ ncalls = 0
    /\ nreads = 0
    /\ first = NoCall
    /\ out = NoCall
    /\ cached0 = NoCache
    /\ jar = {}
    /\ chk = NoCheck
    /\ got = NoLookup
    /\ BldIdle

vars == <<heap, alloc, pool, pc, rev, req, ctx, cancelAt, i, retry, allowRetry,
          resp, events, sent, timerFired, hookIdx,
          stream, hdr, clen, zr, sfail, shape, spos, closed, body, ncalls, nreads, first, out, cached0,
          jar, chk, got,
          hd, wire, caller, bodyCT, nopts, mp, tr, cl, tp, cfg,
          calls, defaultRetry, tokens, opened,
          bq, rw, ndecode, once, hooked, onwire, bo, vb, ue>>

Next ==
    \/ NewRequest
    \/ BeforeHook
    \/ Setup
    \/ Dispatch
    \/ DoReturn
    \/ SelectPoll
    \/ TimerFire
    \/ Cancel
    \/ AfterHook
    \/ OtherPoolUse

Spec == Init /\ [][Next]_vars

\* The same, where the steps of the send itself are always taken in the
\* end: hooks and transport return, the timer of the backoff fires.
FairSpec ==
    /\ Spec
    /\ WF_vars(NewRequest)
    /\ WF_vars(BeforeHook)
    /\ WF_vars(Setup)
    /\ WF_vars(Dispatch)
    /\ WF_vars(DoReturn)
    /\ WF_vars(SelectPoll)
    /\ WF_vars(TimerFire)
    /\ WF_vars(AfterHook)

\* The decoding of a Response a send returned: an error-free one with a
\* raw response whose body stream is unread, or one with an error.
Returned ==
    {[raw |-> Raw(200, 0), err |-> NoErr],
     [raw |-> Raw(500, 0), err |-> NoErr],
     [raw |-> NilRaw, err |-> Err("transport", 0)]}

InitDecode ==
    /\ heap = [b \in Buffers |-> <<>>]
    /\ alloc = {}
    /\ pool = {}
    /\ pc = "decode"
    /\ rev = "B"
    /\ req = NewReq
    /\ ctx = "live"
    /\ cancelAt = "none"
    /\ i = 0
    /\ retry = DefaultPolicy
    /\ allowRetry = TRUE
    /\ resp \in Returned
    /\ events = <<>>
    /\ sent = <<>>
    /\ timerFired = FALSE
    /\ hookIdx = 1
    /\ \E n \in 0..MaxBody :
          /\ stream = Data(n)
          /\ shape \in (IF n = 0 THEN {"none"} ELSE Shapes)
    /\ hdr = ""
    /\ clen = Len(stream)
    /\ zr = NoZr
    /\ sfail \in BOOLEAN
    /\ spos = 0
    /\ closed = FALSE
    /\ body = NilSlice
    /\ ncalls = 0
    /\ nreads = 0
    /\ first = NoCall
    /\ out = NoCall
    /\ cached0 = NoCache
    /\ jar = {}
    /\ chk = NoCheck
    /\ got = NoLookup
    /\ BldIdle

NextDecode ==
    \/ Content
    \/ Text
    \/ JSON
    \/ XML
    \/ OtherPoolUse

SpecDecode == InitDecode /\ [][NextDecode]_vars

\* The inspection of a Response a send returned, between decode calls: its
\* status checks and cookie lookups.  A Response with an error may hold a
\* raw response too (a send cancelled after its attempt was answered).
Inspected ==
    {[raw |-> Raw(st, 0), err |-> NoErr] : st \in StatusCodes} \cup
    {[raw |-> NilRaw, err |-> Err("transport", 0)],
     [raw |-> Raw(200, 0), err |-> Err("canceled", 0)]}

InitInspect ==
    /\ heap = [b \in Buffers |-> <<>>]
    /\ alloc = {}
    /\ pool = {}
    /\ pc = "decode"
    /\ rev = "B"
    /\ req = NewReq
    /\ ctx = "live"
    /\ cancelAt = "none"
    /\ i = 0
    /\ retry = DefaultPolicy
    /\ allowRetry = TRUE
    /\ resp \in Inspected
    /\ events = <<>>
    /\ sent = <<>>
    /\ timerFired = FALSE
    /\ hookIdx = 1
    /\ \E n \in 0..MaxBody :
          /\ stream = Data(n)
          /\ shape = IF n = 0 THEN "none" ELSE "json"
    /\ hdr = ""
    /\ clen = Len(stream)
    /\ zr = NoZr
    /\ sfail = FALSE
    /\ spos = 0
    /\ closed = FALSE
    /\ body = NilSlice
    /\ ncalls = 0
    /\ nreads = 0
    /\ first = NoCall
    /\ out = NoCall
    /\ cached0 = NoCache
    /\ jar \in (IF resp.raw = NilRaw THEN {{}} ELSE SUBSET Names)
    /\ chk = NoCheck
    /\ got = NoLookup
    /\ BldIdle

NextInspect ==
    \/ Content
    \/ JSON
    \/ EnsureStatus
    \/ EnsureStatus2xx
    \/ Cookies
    \/ Cookie

SpecInspect == InitInspect /\ [][NextInspect]_vars

\* ------------------------------------------------- gzip response bodies
\* strings.EqualFold(h, "gzip"), over the header values of the model.
Encodings == {"gzip", "GZIP", "br", ""}
Lower(h) == IF h = "GZIP" THEN "gzip" ELSE h
EqualFold(h, t) == Lower(h) = Lower(t)

\* gzip.NewReader(r): it reads the header through a bufio.Reader, whose
\* first fill took the first m bytes of w.
NewReaderErr(w) ==
    IF w = <<>> THEN Err("gzip", 0)
    ELSE IF w[1] # GzMagic THEN Err("gzip", 1)
    ELSE NoErr

\* Client.do after RawClient.Do returned: a transport error is returned as
\* it is; a response with a gzip Content-Encoding and a ContentLength other
\* than 0 gets a gzip.Reader over its body as its body, and the transport's
\* body is closed; any other response is returned as it is.
do ==
    /\ pc = "wire"
    /\ pc' = "decode"
    /\ IF resp.err = NoErr /\ EqualFold(hdr, "gzip") /\ clen # 0 /\ ~zr.on
       THEN \E m \in (IF stream = <<>> THEN {0} ELSE 1..Len(stream)),
               eof \in BOOLEAN :
               /\ eof => m = Len(stream)
               /\ zr' = IF NewReaderErr(stream) = NoErr
                         THEN ZrOver(Inflate(SubSeq(stream, 1, m)), eof)
                         ELSE ZrOver(<<>>, eof)
               /\ resp' = [resp EXCEPT !.err = NewReaderErr(stream)]
       ELSE UNCHANGED <<zr, resp>>
    /\ UNCHANGED <<stream, hdr, clen, sfail, shape, spos, closed, body,
                   ncalls, nreads, first, out, cached0>>
    /\ UNCHANGED <<rev, req, ctx, cancelAt, i, retry, allowRetry, events,
                   sent, timerFired, hookIdx>>
    /\ UNCHANGED <<memVars, insVars>>
    /\ UNCHANGED bldVars

\* What RawClient.Do returned to Client.do: a response with a body the
\* server compressed as its Content-Encoding says (gzip, or an encoding
\* this client does not handle), with a known or an unknown length, or a
\* transport error.
InitGzip ==
    /\ heap = [b \in Buffers |-> <<>>]
    /\ alloc = {}
    /\ pool = {}
    /\ pc = "wire"
    /\ rev = "B"
    /\ req = NewReq
    /\ ctx = "live"
    /\ cancelAt = "none"
    /\ i = 0
    /\ retry = DefaultPolicy
    /\ allowRetry = TRUE
    /\ resp \in {[raw |-> Raw(200, 0), err |-> NoErr],
                 [raw |-> NilRaw, err |-> Err("transport", 0)]}
    /\ events = <<>>
    /\ sent = <<>>
    /\ timerFired = FALSE
    /\ hookIdx = 1
    /\ hdr \in Encodings
    /\ \E n \in 0..MaxBody :
          /\ stream \in (IF EqualFold(hdr, "gzip")
                         THEN {Gzip(Data(n))} \cup {<<>>}
                         ELSE {Data(n)})
          /\ shape = "none"
    /\ clen \in {Len(stream), -1}
    /\ zr = NoZr
    /\ sfail = FALSE
    /\ spos = 0
    /\ closed = FALSE
    /\ body = NilSlice
    /\ ncalls = 0
    /\ nreads = 0
    /\ first = NoCall
    /\ out = NoCall
    /\ cached0 = NoCache
    /\ jar = {}
    /\ chk = NoCheck
    /\ got = NoLookup
    /\ BldIdle

NextGzip ==
    \/ do
    \/ Content
    \/ Text
    \/ OtherPoolUse

SpecGzip == InitGzip /\ [][NextGzip]_vars

\* The making of a request: its options in any order, then bind.
InitOptions ==
    /\ heap = [b \in Buffers |-> <<>>]
    /\ alloc = {}
    /\ pool = {}
    /\ pc = "opts"
    /\ rev \in Revs
    /\ req = NewReq
    /\ ctx = "live"
    /\ cancelAt = "none"
    /\ i = 0
    /\ retry = DefaultPolicy
    /\ allowRetry = TRUE
    /\ resp = [raw |-> NilRaw, err |-> NoErr]
    /\ events = <<>>
    /\ sent = <<>>
    /\ timerFired = FALSE
    /\ hookIdx = 1
    /\ stream = <<>>
    /\ hdr = ""
    /\ clen = 0
    /\ zr = NoZr
    /\ sfail = FALSE
    /\ shape = "none"
    /\ spos = 0
    /\ closed = FALSE
    /\ body = NilSlice
    /\ ncalls = 0
    /\ nreads = 0
    /\ first = NoCall
    /\ out = NoCall
    /\ cached0 = NoCache
    /\ jar = {}
    /\ chk = NoCheck
    /\ got = NoLookup
    /\ BldIdle

NextOptions ==
    \/ WithContentType
    \/ WithHeaders
    \/ WithJSON
    \/ WithXML
    \/ WithForm
    \/ bind

SpecOptions == InitOptions /\ [][NextOptions]_vars

\* A request with a multipart body: its producer, the transport and the
\* caller, interleaved.
InitMultipart ==
    /\ heap = [b \in Buffers |-> <<>>]
    /\ alloc = {}
    /\ pool = {}
    /\ pc = "opts"
    /\ rev \in Revs
    /\ req = NewReq
    /\ ctx = "live"
    /\ cancelAt = "none"
    /\ i = 0
    /\ retry = DefaultPolicy
    /\ allowRetry = TRUE
    /\ resp = [raw |-> NilRaw, err |-> NoErr]
    /\ events = <<>>
    /\ sent = <<>>
    /\ timerFired = FALSE
    /\ hookIdx = 1
    /\ stream = <<>>
    /\ hdr = ""
    /\ clen = 0
    /\ zr = NoZr
    /\ sfail = FALSE
    /\ shape = "none"
    /\ spos = 0
    /\ closed = FALSE
    /\ body = NilSlice
    /\ ncalls = 0
    /\ nreads = 0
    /\ first = NoCall
    /\ out = NoCall
    /\ cached0 = NoCache
    /\ jar = {}
    /\ chk = NoCheck
    /\ got = NoLookup
    /\ BldIdle

NextMultipart ==
    \/ SetMultipart
    \/ CopyFile
    \/ FilesDone
    \/ Report
    \/ Trailer
    \/ PwClose
    \/ BuildFails
    \/ RoundTrip
    \/ BodyEOF
    \/ DoReturns
    \/ CloseBody
    \/ SelectErr

SpecMultipart == InitMultipart /\ [][NextMultipart]_vars

\* The same, with every goroutine scheduled: no enabled step of the
\* producer, of the transport or of the caller waits forever.
FairMultipart ==
    /\ SpecMultipart
    /\ WF_vars(SetMultipart)
    /\ WF_vars(CopyFile)
    /\ WF_vars(FilesDone)
    /\ WF_vars(Report)
    /\ WF_vars(Trailer)
    /\ WF_vars(PwClose)
    /\ WF_vars(BuildFails \/ RoundTrip)
    /\ WF_vars(BodyEOF)
    /\ WF_vars(DoReturns)
    /\ WF_vars(CloseBody)
    /\ WF_vars(SelectErr)

\* The configuration of a client.
InitConfigure ==
    /\ heap = [b \in Buffers |-> <<>>]
    /\ alloc = {}
    /\ pool = {}
    /\ pc = "client"
    /\ rev = "B"
    /\ req = NewReq
    /\ ctx = "live"
    /\ cancelAt = "none"
    /\ i = 0
    /\ retry = DefaultPolicy
    /\ allowRetry = TRUE
    /\ resp = [raw |-> NilRaw, err |-> NoErr]
    /\ events = <<>>
    /\ sent = <<>>
    /\ timerFired = FALSE
    /\ hookIdx = 1
    /\ stream = <<>>
    /\ hdr = ""
    /\ clen = 0
    /\ zr = NoZr
    /\ sfail = FALSE
    /\ shape = "none"
    /\ spos = 0
    /\ closed = FALSE
    /\ body = NilSlice
    /\ ncalls = 0
    /\ nreads = 0
    /\ first = NoCall
    /\ out = NoCall
    /\ cached0 = NoCache
    /\ jar = {}
    /\ chk = NoCheck
    /\ got = NoLookup
    /\ BldIdle

NextConfigure ==
    \/ Configure
    \/ New

SpecConfigure == InitConfigure /\ [][NextConfigure]_vars

\* Two Do calls on one Client, with or (revision A) without a limiter of
\* one token.
InitConcurrent ==
    /\ heap = [b \in Buffers |-> <<>>]
    /\ alloc = {}
    /\ pool = {}
    /\ pc = "client"
    /\ rev \in Revs
    /\ req = NewReq
    /\ ctx = "live"
    /\ cancelAt = "none"
    /\ i = 0
    /\ retry = DefaultPolicy
    /\ allowRetry = TRUE
    /\ resp = [raw |-> NilRaw, err |-> NoErr]
    /\ events = <<>>
    /\ sent = <<>>
    /\ timerFired = FALSE
    /\ hookIdx = 1
    /\ stream = <<>>
    /\ hdr = ""
    /\ clen = 0
    /\ zr = NoZr
    /\ sfail = FALSE
    /\ shape = "none"
    /\ spos = 0
    /\ closed = FALSE
    /\ body = NilSlice
    /\ ncalls = 0
    /\ nreads = 0
    /\ first = NoCall
    /\ out = NoCall
    /\ cached0 = NoCache
    /\ jar = {}
    /\ chk = NoCheck
    /\ got = NoLookup
    /\ hd = ""
    /\ wire = "unsent"
    /\ caller = ""
    /\ bodyCT = ""
    /\ nopts = 0
    /\ mp = NoMp
    /\ tr = "idle"
    /\ cl = NewClient
    /\ tp = DefaultTransport
    /\ cfg = NoCfg
    /\ calls = [p \in Procs |-> NoDo]
    /\ defaultRetry = DefaultPolicy
    /\ tokens \in (IF rev = "A" THEN {NoLimiter, [burst |-> 1, left |-> 1]}
                   ELSE {NoLimiter})
    /\ MoreIdle

NextConcurrent ==
    \/ \E p \in Procs : DoStart(p)
    \/ \E p \in Procs : DoAttempt(p)
    \/ Refill

SpecConcurrent == InitConcurrent /\ [][NextConcurrent]_vars

\* The requests NewRequest makes, materialized and sent.
InitMaterialize ==
    /\ heap = [b \in Buffers |-> <<>>]
    /\ alloc = {}
    /\ pool = {}
    /\ pc = "built"
    /\ rev \in Revs
    /\ req = NewReq
    /\ ctx = "live"
    /\ cancelAt = "none"
    /\ i = 0
    /\ retry = DefaultPolicy
    /\ allowRetry = TRUE
    /\ resp = [raw |-> NilRaw, err |-> NoErr]
    /\ events = <<>>
    /\ sent = <<>>
    /\ timerFired = FALSE
    /\ hookIdx = 1
    /\ stream = <<>>
    /\ hdr = ""
    /\ clen = 0
    /\ zr = NoZr
    /\ sfail = FALSE
    /\ shape = "none"
    /\ spos = 0
    /\ closed = FALSE
    /\ body = NilSlice
    /\ ncalls = 0
    /\ nreads = 0
    /\ first = NoCall
    /\ out = NoCall
    /\ cached0 = NoCache
    /\ jar = {}
    /\ chk = NoCheck
    /\ got = NoLookup
    /\ BldOwnIdle
    /\ opened = {}
    /\ bq \in Builders
    /\ rw \in {NewRaw(q) : q \in Queries("url")}
    /\ ndecode = 0
    /\ once = NewRaw([k \in Names |-> ""])
    /\ hooked = NoHooked
    /\ onwire = <<>>
    /\ FnIdle

NextMaterialize ==
    \/ RequestHook
    \/ Decode
    \/ SendAttempt

SpecMaterialize == InitMaterialize /\ [][NextMaterialize]_vars

\* The calls of DefaultBackoff with 0 <= min <= max.
InitBackoff ==
    /\ heap = [b \in Buffers |-> <<>>]
    /\ alloc = {}
    /\ pool = {}
    /\ pc = "backoff"
    /\ rev \in Revs
    /\ req = NewReq
    /\ ctx = "live"
    /\ cancelAt = "none"
    /\ i = 0
    /\ retry = DefaultPolicy
    /\ allowRetry = TRUE
    /\ resp = [raw |-> NilRaw, err |-> NoErr]
    /\ events = <<>>
    /\ sent = <<>>
    /\ timerFired = FALSE
    /\ hookIdx = 1
    /\ stream = <<>>
    /\ hdr = ""
    /\ clen = 0
    /\ zr = NoZr
    /\ sfail = FALSE
    /\ shape = "none"
    /\ spos = 0
    /\ closed = FALSE
    /\ body = NilSlice
    /\ ncalls = 0
    /\ nreads = 0
    /\ first = NoCall
    /\ out = NoCall
    /\ cached0 = NoCache
    /\ jar = {}
    /\ chk = NoCheck
    /\ got = NoLookup
    /\ BldOwnIdle
    /\ opened = {}
    /\ MatIdle
    /\ bo \in {[NoBackoff EXCEPT !.min = mn, !.max = mx, !.attempt = k] :
                   mn \in 0..MaxWait, mx \in 0..MaxWait, k \in 0..MaxTries}
    /\ bo.min <= bo.max
    /\ vb = NoVerbs
    /\ ue = NoEncode

NextBackoff == DefaultBackoff

SpecBackoff == InitBackoff /\ [][NextBackoff]_vars

\* The verb helpers called on the Clients.
InitVerbs ==
    /\ heap = [b \in Buffers |-> <<>>]
    /\ alloc = {}
    /\ pool = {}
    /\ pc = "verbs"
    /\ rev \in Revs
    /\ req = NewReq
    /\ ctx = "live"
    /\ cancelAt = "none"
    /\ i = 0
    /\ retry = DefaultPolicy
    /\ allowRetry = TRUE
    /\ resp = [raw |-> NilRaw, err |-> NoErr]
    /\ events = <<>>
    /\ sent = <<>>
    /\ timerFired = FALSE
    /\ hookIdx = 1
    /\ stream = <<>>
    /\ hdr = ""
    /\ clen = 0
    /\ zr = NoZr
    /\ sfail = FALSE
    /\ shape = "none"
    /\ spos = 0
    /\ closed = FALSE
    /\ body = NilSlice
    /\ ncalls = 0
    /\ nreads = 0
    /\ first = NoCall
    /\ out = NoCall
    /\ cached0 = NoCache
    /\ jar = {}
    /\ chk = NoCheck
    /\ got = NoLookup
    /\ BldOwnIdle
    /\ opened = {}
    /\ MatIdle
    /\ FnIdle

NextVerbs ==
    \/ Get
    \/ HeadRequest
    \/ Post
    \/ Put
    \/ Patch
    \/ Delete

SpecVerbs == InitVerbs /\ [][NextVerbs]_vars

\* The calls of URLEncode on a Values.
InitEncode ==
    /\ heap = [b \in Buffers |-> <<>>]
    /\ alloc = {}
    /\ pool = {}
    /\ pc = "encode"
    /\ rev \in Revs
    /\ req = NewReq
    /\ ctx = "live"
    /\ cancelAt = "none"
    /\ i = 0
    /\ retry = DefaultPolicy
    /\ allowRetry = TRUE
    /\ resp = [raw |-> NilRaw, err |-> NoErr]
    /\ events = <<>>
    /\ sent = <<>>
    /\ timerFired = FALSE
    /\ hookIdx = 1
    /\ stream = <<>>
    /\ hdr = ""
    /\ clen = 0
    /\ zr = NoZr
    /\ sfail = FALSE
    /\ shape = "none"
    /\ spos = 0
    /\ closed = FALSE
    /\ body = NilSlice
    /\ ncalls = 0
    /\ nreads = 0
    /\ first = NoCall
    /\ out = NoCall
    /\ cached0 = NoCache
    /\ jar = {}
    /\ chk = NoCheck
    /\ got = NoLookup
    /\ BldOwnIdle
    /\ opened = {}
    /\ MatIdle
    /\ bo = NoBackoff
    /\ vb = NoVerbs
    /\ ue \in {[NoEncode EXCEPT !.v = m, !.escaped = e] :
                    m \in ValuesMaps, e \in BOOLEAN}

NextEncode == URLEncode

SpecEncode == InitEncode /\ [][NextEncode]_vars

\* =========================================================== properties
\* The positions of events of kind e, and their number.
Pos(e) == {p \in DOMAIN events : events[p].e = e}
Count(e) == Cardinality(Pos(e))
\* The hook indexes of the events of kind e, in the order they happened.
Calls(e) == [p \in 1..Count(e) |->
               events[CHOOSE q \in Pos(e) : Cardinality({r \in Pos(e) : r <= q}) = p].k]

\* The send got past the before-request hooks, the draining of the body and
\* the rate limiter.
NoEarlyFailure == Count("fail") = 0 /\ resp.err.kind \notin {"drain", "limiter"}
\* doWithRetry has just returned.
LoopReturned == pc = "after" /\ hookIdx = 1
\* The context's error, or the error an after-response hook put in its place.
IsCtxErrOrHooks(e) == e = Err(ctx, 0) \/ e.kind = "after"

\* C1: with a retry policy of exactly one attempt a send dispatches exactly
\* one attempt (none when a hook, the drain or the limiter failed first) and
\* calls neither a trigger nor the backoff, whatever the attempt returned.
SingleAttempt ==
    (pc # "new" /\ ~req.Retry.nil /\ req.Retry.max = 1) =>
        /\ Count("send") <= 1
        /\ Len(sent) = Count("send")
        /\ Count("trigger") = 0
        /\ Count("backoff") = 0
        /\ (pc = "done" /\ NoEarlyFailure) => Count("send") = 1

\* A finished send with a one-attempt policy and a custom trigger, whose
\* only attempt failed in the transport.
SingleAttemptSeen ==
    /\ pc = "done"
    /\ ~req.Retry.nil /\ req.Retry.max = 1 /\ req.Retry.ntrig = 1
    /\ Count("send") = 1
    /\ resp.err.kind = "transport"

\* C2: every attempt of a request with a replayable in-memory body carries
\* the bytes the first attempt carried.  The code breaks this for a JSON
\* body, whose bytes lie in a pooled buffer's array.
SameBodyEveryAttempt ==
    req.GetBody.set => \A j \in 1..Len(sent) : sent[j] = sent[1]

\* C3: a send whose context is cancelled while the loop is parked in the
\* backoff wait returns the context's error, carries no raw response, and
\* dispatches nothing more.  The code leaves the previous attempt's raw
\* response on the Response.
CancelledInWaitCarriesNoResponse ==
    (cancelAt = "parked" /\ LoopReturned) =>
        /\ resp.err = Err(ctx, 0)
        /\ resp.raw = NilRaw
        /\ Len(sent) = i + 1

\* C4: when the context is cancelled or expires while attempt i is in
\* flight, the loop returns the context's error whatever c.do returned, no
\* trigger or backoff is called for attempt i, and no attempt follows it.
CancelledInFlight ==
    cancelAt = "inflight" =>
        /\ pc \in {"inflight", "after", "done"}
        /\ LoopReturned => resp.err = Err(ctx, 0)
        /\ pc = "done" => IsCtxErrOrHooks(resp.err)
        /\ \A p \in Pos("trigger") \cup Pos("backoff") : events[p].k # i
        /\ Len(sent) = i + 1

\* The loop returned a context error for an attempt that the transport
\* answered with a response, under a policy that had attempts left.
CancelledInFlightSeen ==
    /\ cancelAt = "inflight" /\ LoopReturned
    /\ resp.raw.status = 200 /\ resp.err = Err(ctx, 0)
    /\ retry.max > i + 1 /\ retry.ntrig = 1

AbortOnBeforeHookError ==
    /\ Calls("before") = [p \in 1..Count("before") |-> p]
    /\ \A p \in Pos("before"), q \in DOMAIN events :
          q < p => events[q].e = "before"
    /\ \A p \in Pos("fail") :
          /\ p = Len(events)
          /\ pc = "done"
          /\ resp.err = Err("before", events[p].k)
          /\ events[p - 1] = Event("before", events[p].k)
          /\ sent = <<>>

\* The second hook failed after the first one passed.
AbortOnBeforeHookErrorSeen ==
    /\ pc = "done"
    /\ events = <<Event("before", 1), Event("before", 2), Event("fail", 2)>>
    /\ resp.err = Err("before", 2)

\* C7: the after-response hooks are called in registration order, each at
\* most once per send and only when the retry loop is over; once a hook
\* returns with an error on the response no later hook is called and the
\* send ends with that error.  A send whose loop ended without an error and
\* whose hooks raise none calls every hook.
AfterHooksOnceInOrder ==
    /\ Calls("after") = [p \in 1..Count("after") |-> p]
    /\ \A p \in Pos("after"), q \in DOMAIN events :
          q > p => events[q].e \in {"after", "err"}
    /\ Count("after") > 0 => pc \in {"after", "done"}
    /\ \A p \in Pos("err") :
          /\ p = Len(events)
          /\ pc = "done"
          /\ resp.err # NoErr
          /\ events[p - 1] = Event("after", events[p].k)
    /\ (pc = "done" /\ resp.err = NoErr) => Count("after") = NHooks
    /\ (pc = "done" /\ rev = "B" /\ Count("fail") = 0) => Count("after") >= 1

\* After two attempts the first after-response hook raised an error, and
\* the second hook was not called.
AfterHooksOnceInOrderSeen ==
    /\ pc = "done"
    /\ Count("send") = 2
    /\ Calls("after") = <<1>>
    /\ resp.err = Err("after", 1)

\* C8: on a Response without an error the body stream is read by at most
\* one of the decode calls made on it; once the first call, a Content(),
\* has succeeded, every later call takes its bytes from the cache, the
\* bytes that first call returned.  The code reads the closed stream again
\* when a JSON() or XML() call left the cache nil.
StreamReadAtMostOnce ==
    (pc = "decode" /\ resp.err = NoErr) =>
        /\ nreads <= 1
        /\ (first.op = "content" /\ first.err = NoErr /\ ncalls > 1) =>
              /\ out.src = "cache"
              /\ out.op \in {"content", "json", "xml"} => out.val = first.val

\* C9: when the first decode call on a Response is JSON() or XML(), a later
\* Content() returns every byte of the body.  The code returns the bytes
\* the decoder took from the stream, which stop where the decoder stopped.
ContentAfterDecodeIsWholeBody ==
    (pc = "decode" /\ resp.err = NoErr /\ first.op \in {"json", "xml"}
         /\ ncalls > 1 /\ out.op = "content") =>
        out.val = stream

\* C10: once a decode call has set the cache of a Response, the bytes of
\* the cache stay what they were then, whatever else uses the buffer pool.
\* The code caches a slice of a pooled buffer's array, which the next user
\* of that buffer overwrites.
CachedBytesNeverChange ==
    (pc = "decode" /\ cached0.set) => Val(body) = cached0.v

\* C11: when the first decode call, a JSON() or XML() reading the stream,
\* fails because the body is not of that shape, the Response keeps no
\* error and a later Content(), Text() without charset, or decode of the
\* other shape works on every byte of the body.  The code keeps only the
\* bytes the failing decoder took from the stream.
MalformedDecodeKeepsBody ==
    (pc = "decode" /\ first.src = "stream" /\ first.op \in {"json", "xml"}
         /\ shape # first.op /\ first.err = Err("decode", 0) /\ ncalls > 1
         /\ out.op # first.op) =>
        /\ resp.err = NoErr
        /\ out.op \in {"content", "json", "xml"} => out.val = stream

\* C12: a status check (EnsureStatus(code), EnsureStatus2xx()) on a Response
\* holding a raw response reads and closes nothing and leaves the cache, the
\* raw response and the buffer pool as they are; an error the Response has
\* stays; without one, the check leaves an error exactly when the status is
\* not code (is outside 200..299).
EnsureStatusFrame ==
    [][chk' # chk =>
          /\ UNCHANGED <<stream, spos, closed, body, heap, alloc, pool, ncalls, nreads>>
          /\ resp'.raw = resp.raw
          /\ resp.err # NoErr => resp'.err = resp.err
          /\ resp.err = NoErr =>
                (resp'.err # NoErr <=>
                    IF chk'.op = "status" THEN resp.raw.status # chk'.code
                    ELSE resp.raw.status < 200 \/ resp.raw.status > 299)]_vars

\* EnsureStatus(200) raised an error on a 500 Response whose body had been
\* cached by an earlier decode, and the stream was read once only.
EnsureStatusFrameSeen ==
    /\ pc = "decode"
    /\ chk = Check("status", 200, NoErr)
    /\ resp.raw.status = 500 /\ resp.err = Err("status", 500)
    /\ body # NilSlice /\ nreads = 1

\* C13: on a Response without an error a lookup of an absent cookie, and a
\* listing of no cookies, return the NoCookie error, never an empty value
\* with a nil error.  The code's Cookies() returns the empty list and nil.
NoCookieWhenAbsent ==
    (pc = "decode" /\ resp.err = NoErr /\ got.op # "none" /\ got.names = {}) =>
        got.err = Err("nocookie", 0)

\* C14: a response of a successful exchange with a gzip Content-Encoding
\* (in any letter case) and a non-empty body gives the decompressed bytes to
\* a first Content(), without an error; any other such response gives its
\* body as it came.
GzipBodyDecompressed ==
    (pc = "decode" /\ resp.raw # NilRaw /\ first.op = "content") =>
        /\ first.err = NoErr
        /\ first.val = IF EqualFold(hdr, "gzip") /\ stream # <<>>
                       THEN Inflate(stream) ELSE stream

\* C15: the Content-Type of the raw request is the one the caller set
\* itself (WithContentType, WithHeaders), whatever JSON, XML or form body
\* option was applied before or after it; the Content-Type of the body
\* option is the one sent only when the caller set none.
CallerContentTypeWins ==
    (wire # "unsent" /\ bodyCT # "") =>
        wire = IF caller # "" THEN caller ELSE bodyCT

\* C16: when the multipart producer has failed by the time the send
\* returns, the Response of the send carries an error.
ProducerErrorReported ==
    (pc = "returned" /\ tr = "returned" /\ mp.atReturn) => resp.err # NoErr

\* C17: the producer of a multipart body terminates and the send returns,
\* whether the request is sent, fails on the way, or is never dispatched.
MultipartTerminates ==
    (mp.prod # "none") ~> (mp.prod = "done" /\ pc = "returned")

\* C18: when an option of the list fails, either no client is returned or
\* the client and its transport are as they were before the call.
NoPartialClient ==
    (cfg.how # "none" /\ cfg.err # NoErr) =>
        \/ cfg.ret = "nil"
        \/ cl = NewClient /\ tp = DefaultTransport

\* C19: with a retry policy whose MaxAttempts is 0 or negative a send
\* behaves as with MaxAttempts 1: it dispatches exactly one attempt (none
\* when a hook, the drain or the limiter failed first) and calls neither a
\* trigger nor the backoff.
NonPositiveMaxIsOneAttempt ==
    (pc # "new" /\ ~req.Retry.nil /\ req.Retry.max <= 0) =>
        /\ Count("send") <= 1
        /\ Count("trigger") = 0
        /\ Count("backoff") = 0
        /\ (pc = "done" /\ NoEarlyFailure) => Count("send") = 1

\* What a call of Do with request g does when it runs alone on the Client
\* as configured: its policy, and whether it stops after its j-th attempt,
\* which returned o.
AloneMax(g) ==
    IF g.pol.nil \/ g.pol.max = 0 THEN defaultMaxAttempts
    ELSE IF g.pol.max < 0 /\ rev = "A" THEN noRetryMaxAttempts
    ELSE g.pol.max
AloneCustom(g) == ~g.pol.nil /\ g.pol.ntrig > 0 /\ (rev = "B" \/ g.pol.max > 0)
AloneStops(g, j, o) ==
    \/ j = AloneMax(g)
    \/ rev = "B" /\ ~g.allow
    \/ ~(IF AloneCustom(g) THEN o.t ELSE o.e = "fail")

\* Call c has run, so far, as it would alone, refused by the limiter or not.
RunsAsAlone(c, refused) ==
    /\ c.lim = refused
    /\ IF refused
       THEN c.outs = <<>> /\ c.err = Err("limiter", 0)
       ELSE /\ \A j \in 1..(Len(c.outs) - 1) : ~AloneStops(c.given, j, c.outs[j])
            /\ Len(c.outs) <= IF AloneMax(c.given) > 0 THEN AloneMax(c.given) ELSE 0
            /\ c.pc = "done" =>
                  IF AloneMax(c.given) <= 0
                  THEN c.outs = <<>> /\ c.err = NoErr
                  ELSE /\ c.outs # <<>>
                       /\ AloneStops(c.given, Len(c.outs), c.outs[Len(c.outs)])
                       /\ c.err = IF c.outs[Len(c.outs)].e = "fail"
                                  THEN Err("transport", 0) ELSE NoErr

\* The Client and the default retry policy are as they were made.
SharedUntouched ==
    /\ defaultRetry = [nil |-> FALSE, max |-> defaultMaxAttempts, ntrig |-> 0]
    /\ cl = NewClient
    /\ tp = DefaultTransport

\* C20 as stated: Do calls running concurrently on a Client write neither
\* the Client nor the default retry policy, and each makes the attempts and
\* the retry decisions and returns the error it would when run alone, where
\* a limiter with a token refuses nobody.
CallsIndependent ==
    /\ SharedUntouched
    /\ \A p \in Procs :
          calls[p].pc # "idle" => RunsAsAlone(calls[p], rev = "A" /\ tokens.burst = 0)

\* C20, amended: Do calls running concurrently on a Client write neither
\* the Client nor the default retry policy, and each makes the attempts and
\* the retry decisions and returns the error it would when run alone, but
\* for the rate limiter of the Client, whose tokens the calls share: a call
\* the limiter refuses makes no attempt and returns the limiter's error.
CallsIndependentButLimiter ==
    /\ SharedUntouched
    /\ \A p \in Procs :
          calls[p].pc # "idle" => RunsAsAlone(calls[p], calls[p].lim)

\* Two finished calls of revision B: one with a policy of its own, merged
\* with the default one, which made two attempts; one without a policy,
\* which made the single attempt of the default policy.
CallsIndependentSeen ==
    /\ rev = "B"
    /\ calls[1].pc = "done" /\ calls[2].pc = "done"
    /\ ~calls[1].given.pol.nil /\ calls[1].given.pol.max = 2
    /\ Len(calls[1].outs) = 2
    /\ calls[2].given.pol.nil /\ Len(calls[2].outs) = 1

\* A send with a policy of N >= 1 attempts has dispatched attempts 0..N-1
\* at most, waited between them at most N-1 times, and has not asked a
\* trigger about attempt N-1.
BoundedAttemptsNow ==
    (pc # "new" /\ ~req.Retry.nil /\ req.Retry.max >= 1) =>
        /\ Count("send") <= req.Retry.max
        /\ \A p \in Pos("send") : events[p].k <= req.Retry.max - 1
        /\ Count("backoff") <= req.Retry.max - 1
        /\ \A p \in Pos("trigger") : events[p].k < req.Retry.max - 1

\* C22: with a retry policy of N >= 1 attempts, whatever transport, trigger
\* and context do, a send dispatches at most N attempts, waits at most N-1
\* times, returns after attempt N-1 without asking the trigger, and ends.
BoundedAttempts == []BoundedAttemptsNow /\ <>(pc = "done")

\* A finished send with a two-attempt policy and a custom trigger, which
\* made both attempts and asked the trigger once; the last attempt failed.
BoundedAttemptsSeen ==
    /\ pc = "done"
    /\ ~req.Retry.nil /\ req.Retry.max = 2 /\ req.Retry.ntrig = 1
    /\ Count("send") = 2 /\ Count("backoff") = 1 /\ Count("trigger") = 1
    /\ resp.err.kind = "transport"

ResponseNeverEmpty ==
    pc = "done" => (resp.err # NoErr \/ resp.raw # NilRaw)

\* The bodies whose closing is the caller's: that of the attempt whose
\* result Do hands over, unless a cancellation's error took its place.
HandedOver ==
    IF resp.err.kind \in {"canceled", "deadline"} THEN {} ELSE {"current"}

\* C29: when Do returns, the body of every attempt whose result is not
\* handed to the caller is closed (an attempt a retry superseded, an
\* attempt whose result a cancellation replaced), so that at most one
\* body opened during the call is open, the one handed over.
SupersededBodiesClosed ==
    pc = "done" => opened \subseteq HandedOver

\* C30: when the first Content() of a Response failed with a read error
\* part-way through the body, every later Content(), Text(), JSON() and
\* XML() of that Response reports an error too: none returns the bytes
\* read so far with a nil error.
ReadErrorSticks ==
    (/\ ncalls >= 2
     /\ first.op = "content" /\ first.src = "stream"
     /\ first.err = Err("read", 0))
    => out.err # NoErr

\* C21: a header a before-request hook set on the Request is the value
\* every attempt sends: the request is materialized after all the hooks,
\* and the default User-Agent is sent only when neither an option nor a
\* hook set one.
HookHeaderSent ==
    \A a \in DOMAIN onwire :
        /\ hooked.setUA => onwire[a].ua = hooked.ua
        /\ hooked.setCT => onwire[a].ct = hooked.ct
        /\ onwire[a].ua = defaultUserAgent => (~hooked.setUA /\ ~bq.optUA)
        /\ onwire[a] = onwire[1]

\* C27: materializing a Request is idempotent: when no hook has changed
\* the Request, two or more calls of Decode leave the raw request (query,
\* headers, cookies, body) as the first call left it.
DecodeIdempotent ==
    (ndecode >= 2 /\ ~hooked.setUA /\ ~hooked.setCT) => rw = once

\* C24: for 0 <= min <= max, 0 and 1 included, and an attempt number
\* >= 0, DefaultBackoff returns a wait w with min <= w <= max, whatever
\* the jitter.
BackoffWithinBounds ==
    bo.called => (bo.min <= bo.sleep /\ bo.sleep <= bo.max)

\* C25: each verb helper of a Client (Get, Head, Post, Put, Patch, Delete)
\* sends through the Client it was called on, not through GlobalClient.
HelperSendsThroughItsClient ==
    vb.n > 0 => vb.via = vb.on

\* The pairs of a Values with each key and each value escaped once, the
\* keys ascending, the values of a key in their order.
RECURSIVE EscapedOnce(_, _)
EscapedOnce(v, keys) ==
    IF keys = <<>> THEN <<>>
    ELSE [j \in 1..Len(v[Head(keys)]) |->
             [k |-> QueryEscape(Head(keys)), v |-> QueryEscape(v[Head(keys)][j])]]
         \o EscapedOnce(v, Tail(keys))

\* C26: URLEncode with escaping writes the pairs in ascending order of the
\* keys, the values of a key in their order and under the same key text,
\* key and value percent-escaped exactly once.
EncodeEscapesOnce ==
    (ue.called /\ ue.escaped) => ue.out = EscapedOnce(ue.v, Sorted(KeyTexts))

====
